---- MODULE Spec2Model ----
(***************************************************************************)
(* The best-transactions iterators of the transaction pool                 *)
(* (crates/transaction-pool/src/pool/best.rs): BestTransactions and its    *)
(* wrappers, with the broadcast channel that feeds live updates.           *)
(*                                                                         *)
(* Option<T> is a sequence of length at most one: <<>> is None and <<x>>   *)
(* is Some(x).                                                             *)
(***************************************************************************)
EXTENDS Integers, Sequences, FiniteSets, TLC

\* ------------------------------------------------------------------ bounds
NumSenders == 2
MaxNonce == 2
MaxPriority == 2
MaxFee == 2
\* transactions in a snapshot that also receives live updates
MaxSnapshot == 2
\* transactions in a snapshot that receives none
MaxStatic == 3
\* transactions the pool broadcasts while the iterator lives
MaxSends == 2
\* capacity of the broadcast channel
ChanCapacity == 2
\* capacity of a broadcast channel small enough for the receiver to lag
LagCapacity == 1
\* the greatest on-chain balance of a sender, and the greatest cost
MaxBalance == 3
\* transactions submitted to the pool
MaxSubmissions == 3
\* the transactions of one add_transactions call
MaxBatch == 2
\* callers with an add_transaction future each
MaxCallers == 2
\* block numbers the provider may hold a block for
MaxBlock == 3
\* width of a block number and of a count, in bits (u64 scaled down)
U64Bits == 11
\* forkchoice updates one engine API receives
MaxRequests == 2
\* the greatest gas limit of a transaction
MaxGas == 2
\* the greatest max_prioritized_gas a wrapper is built with
MaxPrioritizedGas == 3

Senders == 1..NumSenders
Nonces == 0..MaxNonce
Priorities == 1..MaxPriority
Fees == 1..MaxFee
GasLimits == 1..MaxGas
Balances == 0..MaxBalance
BaseFees == 1..(MaxFee + 1)
TxIds == Senders \X Nonces

None == <<>>
Some(x) == <<x>>

\* ------------------------------------------------------------------ state
VARIABLES
    best,           \* the BestTransactions struct
    chan,           \* the broadcast channel as this iterator's receiver sees it
    submission_id,  \* the pool's submission counter, for transactions sent later
    base_fee,       \* BestTransactionsWithFees.base_fee
    base_fee_per_blob_gas, \* BestTransactionsWithFees.base_fee_per_blob_gas
    predicate,      \* BestTransactionFilter.predicate
    snapshot,       \* history: the transactions the iterator was created over
    yielded,        \* history: what the outermost iterator returned, in order
    skipped,        \* history: blob transactions dropped because skip_blobs is set
    discarded,      \* history: transactions a wrapper received and did not return
    marked,         \* history: senders the consumer called mark_invalid for
    suppressed,     \* history: channel messages read while above last_priority
    frozen,         \* history: once no_updates() was called, Some of
                    \*   all: the transactions `all` held at that call, less those
                    \*        yielded since
                    \*   stray: the transactions yielded since that `all` did not hold
    wrapper,        \* the BestTransactionsWithPrioritizedSenders struct; its
                    \*   `inner` is `best`
    produced,       \* history: what `inner` returned to the wrapper, in order
    path,           \* history: for each yielded transaction the branch of the
                    \*   wrapper's next() that returned it
    pool,           \* the subpool engine: held transactions with their tags,
                    \*   sender state, fees, submission counter, configuration
    outcome,        \* history: the transaction and the result of each recorded
                    \*   add_transaction call, in order
    calls,          \* the Pool::add_transaction futures in flight, by caller
    engine          \* the EngineApi: its provider, the consensus engine it
                    \*   talks to, and what a request read, sent and returned

vars == <<best, chan, submission_id, base_fee, base_fee_per_blob_gas, predicate,
          snapshot, yielded, skipped, discarded, marked, suppressed, frozen,
          wrapper, produced, path, pool, outcome, calls, engine>>

\* no add_transaction future is modelled
no_calls == calls = <<>>

\* no EngineApi is modelled
no_engine == engine = <<>>

\* the state of the best-transactions iterators
iterator_vars ==
    <<best, chan, submission_id, base_fee, base_fee_per_blob_gas, predicate,
      snapshot, yielded, skipped, discarded, marked, suppressed, frozen,
      wrapper, produced, path>>

\* ------------------------------------------------------------ transactions
\* TransactionId: (sender, nonce)
id(tx) == <<tx.sender, tx.nonce>>

\* TransactionId::unchecked_ancestor: (s, n-1), None when n = 0
unchecked_ancestor(tx_id) ==
    IF tx_id[2] = 0 THEN None ELSE Some(<<tx_id[1], tx_id[2] - 1>>)

\* PendingTransaction::unlocks: the id of the direct descendant (s, n+1)
unlocks(tx) == <<tx.sender, tx.nonce + 1>>

\* BTreeMap::get on `all`
get(all, tx_id) == IF tx_id \in DOMAIN all THEN all[tx_id] ELSE None

\* Ord for PendingTransaction: by priority, ties broken by the earlier
\* submission (the smaller submission_id is the greater element)
tx_less(a, b) ==
    \/ a.priority < b.priority
    \/ a.priority = b.priority /\ a.submission_id > b.submission_id

\* mutant: pop_first instead of pop_last
first(set) == CHOOSE t \in set : \A u \in set \ {t} : tx_less(t, u)

\* BTreeSet::last: the greatest element of a non-empty set
last(set) == CHOOSE t \in set : \A u \in set \ {t} : tx_less(u, t)

\* the values of the map `all`
held(all) == {all[i][1] : i \in {j \in DOMAIN all : all[j] # None}}

\* -------------------------------------------------------- BestTransactions
\* mutant: the sender is not recorded
mark_invalid_noop(self, tx) == self

\* BestTransactions::mark_invalid
mark_invalid(self, tx) == [self EXCEPT !.invalid = @ \cup {tx.sender}]

\* mutant: no ancestor is ever found
ancestor_none(self, tx_id) == None

\* BestTransactions::ancestor
ancestor(self, tx_id) ==
    IF unchecked_ancestor(tx_id) = None THEN None
    ELSE get(self.all, unchecked_ancestor(tx_id)[1])

\* mutant: a Lagged error ends the read like an empty channel
try_recv_lag_ends(self, ch) ==
    IF ~self.new_transaction_receiver THEN [chan |-> ch, tx |-> None]
    ELSE IF ch.lagged THEN [chan |-> [ch EXCEPT !.lagged = FALSE], tx |-> None]
    ELSE IF ch.queue = <<>> THEN [chan |-> ch, tx |-> None]
    ELSE LET tx == Head(ch.queue)
             rest == [ch EXCEPT !.queue = Tail(@)]
         IN  IF self.last_priority # None /\ tx.priority > self.last_priority[1]
             THEN [chan |-> rest, tx |-> None]
             ELSE [chan |-> rest, tx |-> Some(tx)]

\* mutant: the received priority is not compared with last_priority
RECURSIVE try_recv_unchecked(_, _)
try_recv_unchecked(self, ch) ==
    IF ~self.new_transaction_receiver THEN [chan |-> ch, tx |-> None]
    ELSE IF ch.lagged THEN try_recv_unchecked(self, [ch EXCEPT !.lagged = FALSE])
    ELSE IF ch.queue = <<>> THEN [chan |-> ch, tx |-> None]
    ELSE [chan |-> [ch EXCEPT !.queue = Tail(@)], tx |-> Some(Head(ch.queue))]

\* BestTransactions::try_recv: [chan, tx], the channel after the read and the
\* transaction handed to the caller
RECURSIVE try_recv(_, _)
try_recv(self, ch) ==
    IF ~self.new_transaction_receiver THEN [chan |-> ch, tx |-> None]
    ELSE IF ch.lagged THEN try_recv(self, [ch EXCEPT !.lagged = FALSE])
    ELSE IF ch.queue = <<>> THEN [chan |-> ch, tx |-> None]
    ELSE LET tx == Head(ch.queue)
             rest == [ch EXCEPT !.queue = Tail(@)]
         IN  IF self.last_priority # None /\ tx.priority > self.last_priority[1]
             THEN [chan |-> rest, tx |-> None]
             ELSE [chan |-> rest, tx |-> Some(tx)]

\* mutant: the best transaction is removed from `independent` alone
pop_best_keeping_all(self) ==
    IF self.independent = {} THEN [self |-> self, best |-> None]
    ELSE [self |-> [self EXCEPT !.independent = @ \ {last(self.independent)}],
          best |-> Some(last(self.independent))]

\* BestTransactions::pop_best: [self, best]
pop_best(self) ==
    IF self.independent = {} THEN [self |-> self, best |-> None]
    ELSE LET b == last(self.independent)
         IN  [self |-> [self EXCEPT !.independent = @ \ {b},
                                    !.all[id(b)] = None],
              best |-> Some(b)]

\* BestTransactions::add_new_transactions: [self, chan]
RECURSIVE add_new_transactions(_, _)
add_new_transactions(self, ch) ==
    LET r == try_recv(self, ch)
    IN  IF r.tx = None THEN [self |-> self, chan |-> r.chan]
        ELSE LET pending_tx == r.tx[1]
                 tx_id == id(pending_tx)
                 ind == IF ancestor(self, tx_id) = None
                        THEN self.independent \cup {pending_tx}
                        ELSE self.independent
             IN  add_new_transactions(
                     [self EXCEPT !.independent = ind,
                                  !.all[tx_id] = Some(pending_tx)],
                     r.chan)

\* <BestTransactions as traits::BestTransactions>::no_updates
no_updates(self) ==
    [self EXCEPT !.new_transaction_receiver = FALSE, !.last_priority = None]

\* <BestTransactions as traits::BestTransactions>::set_skip_blobs
set_skip_blobs(self, skip) == [self EXCEPT !.skip_blobs = skip]

\* mutant: the invalid set is not consulted
sender_invalid_never(self, b) == FALSE

\* next: "skip transactions for which sender was marked as invalid"
sender_invalid(self, b) == b.sender \in self.invalid

\* mutant: the descendant is not moved to `independent`
insert_unlocked_none(self, b) == self

\* next: "Insert transactions that just got unlocked"
insert_unlocked(self, b) ==
    LET unlocked == get(self.all, unlocks(b))
    IN  IF unlocked # None
        THEN [self EXCEPT !.independent = @ \cup {unlocked[1]}]
        ELSE self

\* next: the condition of the skip_blobs branch
blob_skipped(self, b) == self.skip_blobs /\ b.is_eip4844

\* next: last_priority is recorded while a receiver is held
record_priority(self, b) ==
    IF self.new_transaction_receiver
    THEN [self EXCEPT !.last_priority = Some(b.priority)]
    ELSE self

\* <BestTransactions as Iterator>::next: [self, chan, item, skipped]; skipped
\* collects the blob transactions dropped on the skip_blobs branch
RECURSIVE next(_, _, _)
next(self, ch, skip_acc) ==
    LET added == add_new_transactions(self, ch)
        popped == pop_best(added.self)
    IN  IF popped.best = None
        THEN [self |-> popped.self, chan |-> added.chan, item |-> None,
              skipped |-> skip_acc]
        ELSE LET b == popped.best[1]
                 with_unlocked == insert_unlocked(popped.self, b)
             IN  IF sender_invalid(popped.self, b)
                 THEN next(popped.self, added.chan, skip_acc)
                 ELSE IF blob_skipped(with_unlocked, b)
                 THEN next(mark_invalid(with_unlocked, b), added.chan,
                           skip_acc \cup {b})
                 ELSE [self |-> record_priority(with_unlocked, b),
                       chan |-> added.chan, item |-> Some(b),
                       skipped |-> skip_acc]

\* ------------------------------------------------ BestTransactionsWithFees
\* mutant: the blob fee is not compared
fees_satisfied_base_only(tx, fee, blob_fee) == tx.max_fee_per_gas >= fee

\* BestTransactionsWithFees::next: the condition under which `best` is returned
fees_satisfied(tx, fee, blob_fee) ==
    /\ tx.max_fee_per_gas >= fee
    /\ tx.max_fee_per_blob_gas = None \/ tx.max_fee_per_blob_gas[1] >= blob_fee

\* mutant: an underpriced transaction is dropped without mark_invalid
RECURSIVE with_fees_next_no_mark(_, _, _, _, _, _)
with_fees_next_no_mark(self, ch, fee, blob_fee, skip_acc, disc_acc) ==
    LET r == next(self, ch, skip_acc)
    IN  IF r.item = None \/ fees_satisfied(r.item[1], fee, blob_fee)
        THEN [self |-> r.self, chan |-> r.chan, item |-> r.item,
              skipped |-> r.skipped, discarded |-> disc_acc]
        ELSE with_fees_next_no_mark(r.self, r.chan, fee, blob_fee,
                                    r.skipped, disc_acc \cup {r.item[1]})

\* <BestTransactionsWithFees as Iterator>::next:
\* [self, chan, item, skipped, discarded] with self the inner BestTransactions
RECURSIVE with_fees_next(_, _, _, _, _, _)
with_fees_next(self, ch, fee, blob_fee, skip_acc, disc_acc) ==
    LET r == next(self, ch, skip_acc)
    IN  IF r.item = None \/ fees_satisfied(r.item[1], fee, blob_fee)
        THEN [self |-> r.self, chan |-> r.chan, item |-> r.item,
              skipped |-> r.skipped, discarded |-> disc_acc]
        ELSE with_fees_next(mark_invalid(r.self, r.item[1]), r.chan, fee, blob_fee,
                            r.skipped, disc_acc \cup {r.item[1]})

\* --------------------------------------------------- BestTransactionFilter
\* the predicates a filter is built with
Predicates == {"even_nonce", "not_blob", "top_priority"}

\* (self.predicate)(&best)
holds(p, tx) ==
    CASE p = "even_nonce" -> tx.nonce % 2 = 0
      [] p = "not_blob" -> ~tx.is_eip4844
      [] p = "top_priority" -> tx.priority = MaxPriority

\* mutant: a filtered transaction is dropped without mark_invalid
RECURSIVE filter_next_no_mark(_, _, _, _, _)
filter_next_no_mark(self, ch, p, skip_acc, disc_acc) ==
    LET r == next(self, ch, skip_acc)
    IN  IF r.item = None \/ holds(p, r.item[1])
        THEN [self |-> r.self, chan |-> r.chan, item |-> r.item,
              skipped |-> r.skipped, discarded |-> disc_acc]
        ELSE filter_next_no_mark(r.self, r.chan, p,
                                 r.skipped, disc_acc \cup {r.item[1]})

\* <BestTransactionFilter as Iterator>::next
RECURSIVE filter_next(_, _, _, _, _)
filter_next(self, ch, p, skip_acc, disc_acc) ==
    LET r == next(self, ch, skip_acc)
    IN  IF r.item = None \/ holds(p, r.item[1])
        THEN [self |-> r.self, chan |-> r.chan, item |-> r.item,
              skipped |-> r.skipped, discarded |-> disc_acc]
        ELSE filter_next(mark_invalid(r.self, r.item[1]), r.chan, p,
                         r.skipped, disc_acc \cup {r.item[1]})

\* ---------------------------------- BestTransactionsWithPrioritizedSenders
\* gas limits are bounded by the block gas limit, so the u64 sums below do
\* not wrap
\* BestTransactionsWithPrioritizedSenders::new
new(prioritized_senders, max_prioritized_gas) ==
    [prioritized_senders |-> prioritized_senders,
     max_prioritized_gas |-> max_prioritized_gas,
     buffer |-> <<>>,
     prioritized_gas |-> 0]

\* mutant: the gas limit of the transaction is left out of the comparison
is_prioritized_any_gas(w, item) ==
    /\ item.sender \in w.prioritized_senders
    /\ w.prioritized_gas <= w.max_prioritized_gas

\* next: the condition under which `item` is returned from the for loop
is_prioritized(w, item) ==
    /\ item.sender \in w.prioritized_senders
    /\ w.prioritized_gas + item.gas_limit <= w.max_prioritized_gas

\* mutant: the buffer is used as a stack
push_front(buffer, item) == <<item>> \o buffer

\* VecDeque::push_back
push_back(buffer, item) == Append(buffer, item)

\* next: `for item in &mut self.inner`, the loop that prioritizes:
\* [wrapper, self, chan, item, skipped, produced], with self the inner
\* iterator and produced the items the inner iterator returned
RECURSIVE prioritize(_, _, _, _, _)

\* the body of the loop, for the result r of one inner next()
loop_body(w, r, prod_acc) ==
    IF r.item = None
    THEN [wrapper |-> w, self |-> r.self, chan |-> r.chan, item |-> None,
          skipped |-> r.skipped, produced |-> prod_acc]
    ELSE IF is_prioritized(w, r.item[1])
    THEN [wrapper |-> [w EXCEPT !.prioritized_gas = @ + r.item[1].gas_limit],
          self |-> r.self, chan |-> r.chan, item |-> r.item,
          skipped |-> r.skipped, produced |-> Append(prod_acc, r.item[1])]
    ELSE prioritize([w EXCEPT !.buffer = push_back(@, r.item[1])],
                    r.self, r.chan, r.skipped, Append(prod_acc, r.item[1]))

prioritize(w, self, ch, skip_acc, prod_acc) ==
    loop_body(w, next(self, ch, skip_acc), prod_acc)

\* next, below the loop: `self.inner.next()` when the buffer is empty, for
\* the result r of that call
from_inner(p, r) ==
    [wrapper |-> p.wrapper, self |-> r.self, chan |-> r.chan,
     item |-> r.item, skipped |-> r.skipped,
     produced |-> IF r.item = None THEN p.produced
                  ELSE Append(p.produced, r.item[1]),
     path |-> "inner"]

\* next, below the loop, for the result p of the loop: the buffer's front,
\* else the inner iterator
from_buffer(p) ==
    IF p.item # None
    THEN [wrapper |-> p.wrapper, self |-> p.self, chan |-> p.chan,
          item |-> p.item, skipped |-> p.skipped, produced |-> p.produced,
          path |-> "prioritized"]
    ELSE IF p.wrapper.buffer # <<>>
    THEN [wrapper |-> [p.wrapper EXCEPT !.buffer = Tail(@)],
          self |-> p.self, chan |-> p.chan,
          item |-> Some(Head(p.wrapper.buffer)), skipped |-> p.skipped,
          produced |-> p.produced, path |-> "buffer"]
    ELSE from_inner(p, next(p.self, p.chan, p.skipped))

\* <BestTransactionsWithPrioritizedSenders as Iterator>::next:
\* [wrapper, self, chan, item, skipped, produced, path]; path names the
\* branch that returned the item
prioritized_next(w, self, ch) ==
    from_buffer(IF w.prioritized_gas < w.max_prioritized_gas
                THEN prioritize(w, self, ch, {}, <<>>)
                ELSE [wrapper |-> w, self |-> self, chan |-> ch, item |-> None,
                      skipped |-> {}, produced |-> <<>>])

\* <BestTransactionsWithPrioritizedSenders as BestTransactions>::
\* set_skip_blobs: [wrapper, self, dropped], with dropped the transactions
\* the buffer no longer retains
prioritized_set_skip_blobs(w, self, skip_blobs) ==
    LET kept == IF skip_blobs
                THEN SelectSeq(w.buffer, LAMBDA tx : ~tx.is_eip4844)
                ELSE w.buffer
    IN  [wrapper |-> [w EXCEPT !.buffer = kept],
         self |-> set_skip_blobs(self, skip_blobs),
         dropped |-> {w.buffer[k] : k \in DOMAIN w.buffer} \ {kept[k] : k \in DOMAIN kept}]

\* ------------------------------------------------------ the pending pool
\* the transactions a snapshot or a live update is drawn from
Variants(prios, blobs, fees, gases) ==
    [priority : prios, is_eip4844 : blobs, max_fee_per_gas : fees,
     blob_fee : fees, gas_limit : gases]

Tx(s, n, sid, v) ==
    [sender |-> s, nonce |-> n, submission_id |-> sid, priority |-> v.priority,
     is_eip4844 |-> v.is_eip4844, max_fee_per_gas |-> v.max_fee_per_gas,
     gas_limit |-> v.gas_limit,
     max_fee_per_blob_gas |-> IF v.is_eip4844 THEN Some(v.blob_fee) ELSE None]

\* blob_fee is read only for blob transactions: keep one representative
Canonical(vs) == {v \in vs : v.is_eip4844 \/ v.blob_fee = 1}

\* ids of gapless chains: sender s holds nonces 0 .. len[s]-1
ChainIds(len) == {i \in TxIds : i[2] < len[i[1]]}

\* PendingPool::best: the snapshot holds every pending transaction in `all`
\* and the chain heads in `independent`, with a receiver subscribed
Snapshot(len, v) ==
    LET tx_of(i) == Tx(i[1], i[2], i[2] * NumSenders + i[1], v[i])
    IN  [all |-> [i \in TxIds |-> IF i \in ChainIds(len) THEN Some(tx_of(i)) ELSE None],
         independent |-> {tx_of(i) : i \in {j \in ChainIds(len) : j[2] = 0}},
         invalid |-> {},
         new_transaction_receiver |-> TRUE,
         last_priority |-> None,
         skip_blobs |-> FALSE]

FirstLiveId == (MaxNonce + 1) * NumSenders + 1

InitWith(vs, max_snapshot) ==
    /\ \E len \in [Senders -> 0..(MaxNonce + 1)] :
         /\ Cardinality(ChainIds(len)) <= max_snapshot
         /\ \E v \in [ChainIds(len) -> Canonical(vs)] :
              /\ best = Snapshot(len, v)
              /\ snapshot = held(Snapshot(len, v).all)
    /\ chan = [lagged |-> FALSE, queue |-> <<>>]
    /\ submission_id = FirstLiveId
    /\ yielded = <<>>
    /\ skipped = {}
    /\ discarded = {}
    /\ marked = {}
    /\ suppressed = {}
    /\ frozen = None

\* the iterator is not wrapped in a BestTransactionsWithPrioritizedSenders
not_prioritized == wrapper = new({}, 0) /\ produced = <<>> /\ path = <<>>

no_wrapper ==
    /\ base_fee = 0 /\ base_fee_per_blob_gas = 0 /\ predicate = "none"
    /\ not_prioritized

\* the messages a call consumed from the channel
consumed(ch, ch2) == SubSeq(ch.queue, 1, Len(ch.queue) - Len(ch2.queue))

\* the consumed messages that exceeded the priority yielded last
above_last(self, ch, ch2) ==
    LET c == consumed(ch, ch2)
    IN  {c[k] : k \in {j \in DOMAIN c :
            self.last_priority # None /\ c[j].priority > self.last_priority[1]}}

\* the history after a call that returned `r`
Returned(r) ==
    /\ best' = r.self
    /\ chan' = r.chan
    /\ yielded' = IF r.item = None THEN yielded ELSE Append(yielded, r.item[1])
    /\ skipped' = skipped \cup r.skipped
    /\ suppressed' = suppressed \cup above_last(best, chan, r.chan)
    /\ frozen' = IF frozen = None \/ r.item = None THEN frozen
                 ELSE Some([all |-> frozen[1].all \ {r.item[1]},
                            stray |-> frozen[1].stray \cup ({r.item[1]} \ frozen[1].all)])
    /\ UNCHANGED <<submission_id, marked, snapshot, base_fee, base_fee_per_blob_gas,
                   predicate, pool, outcome, calls,
                   engine>>

\* ---------------------------------------------------------- subpool engine
\* The engine that holds the validated transactions in the four subpools;
\* its operations are those the Pool of lib.rs delegates to.
SubPools == {"Pending", "BaseFee", "Blob", "Queued"}

\* the transactions submitted to the pool: a Tx with its cost, size and tip
ValidTx(s, n, v) ==
    [sender |-> s, nonce |-> n, submission_id |-> 0, priority |-> v.priority,
     is_eip4844 |-> v.is_eip4844, max_fee_per_gas |-> v.max_fee_per_gas,
     max_fee_per_blob_gas |-> IF v.is_eip4844 THEN Some(v.blob_fee) ELSE None,
     gas_limit |-> v.gas_limit, cost |-> v.cost, encoded_size |-> v.encoded_size,
     max_priority_fee_per_gas |-> v.max_priority_fee_per_gas]

PoolVariants(prios, blobs, fees, tips, costs, sizes) ==
    {v \in [priority : prios, is_eip4844 : blobs, max_fee_per_gas : fees,
            blob_fee : fees, gas_limit : {1}, cost : costs, encoded_size : sizes,
            max_priority_fee_per_gas : tips] :
        /\ v.is_eip4844 \/ \A f \in fees : v.blob_fee <= f
        /\ v.max_priority_fee_per_gas <= v.max_fee_per_gas}

\* a transaction's hash stands for its content
hash(tx) == [tx EXCEPT !.submission_id = 0]

\* the held transactions, with their tags
entries(p) == {p.txs[i][1] : i \in {j \in TxIds : p.txs[j] # None}}

by_hash(p, h) == {e \in entries(p) : hash(e.transaction) = h}

\* the transactions of one subpool
subpool(p, tag) == {e.transaction : e \in {x \in entries(p) : x.subpool = tag}}

\* the transactions of one sender
of_sender(p, s) == {e.transaction : e \in {x \in entries(p) : x.transaction.sender = s}}

RECURSIVE SumOf(_, _)
SumOf(f, set) ==
    IF set = {} THEN 0
    ELSE LET x == CHOOSE y \in set : TRUE
         IN  f[x] + SumOf(f, set \ {x})

\* cumulative_cost: the cost of the sender's held chain up to and including tx
cumulative_cost(p, tx) ==
    LET chain == {t \in of_sender(p, tx.sender) : t.nonce <= tx.nonce}
    IN  SumOf([t \in chain |-> t.cost], chain)

\* mutant: a missing predecessor is not noticed
classify_gap_blind(tx, prev, cumulative, on_chain_nonce, balance, fee, blob_fee) ==
    IF prev # None /\ prev[1] # "Pending" THEN "Queued"
    ELSE IF cumulative > balance THEN "Queued"
    ELSE IF tx.is_eip4844 /\ tx.max_fee_per_blob_gas[1] < blob_fee THEN "Blob"
    ELSE IF tx.max_fee_per_gas < fee THEN "BaseFee"
    ELSE "Pending"

\* the classification function; prev is the tag of the held predecessor,
\* None when (sender, nonce - 1) is not held
classify(tx, prev, cumulative, on_chain_nonce, balance, fee, blob_fee) ==
    IF (tx.nonce > on_chain_nonce /\ prev = None)
          \/ (prev # None /\ prev[1] # "Pending") THEN "Queued"
    ELSE IF cumulative > balance THEN "Queued"
    ELSE IF tx.is_eip4844 /\ tx.max_fee_per_blob_gas[1] < blob_fee THEN "Blob"
    ELSE IF tx.max_fee_per_gas < fee THEN "BaseFee"
    ELSE "Pending"

\* the tag the classification function gives a held transaction now
tag_of(p, tx) ==
    LET before == unchecked_ancestor(id(tx))
        prev == IF before = None \/ p.txs[before[1]] = None THEN None
                ELSE Some(p.txs[before[1]][1].subpool)
    IN  classify(tx, prev, cumulative_cost(p, tx), p.state_nonce[tx.sender],
                 p.balance[tx.sender], p.base_fee, p.blob_fee)

\* recompute the tags of a sender's chain in ascending nonce order, from nonce n
RECURSIVE retag(_, _, _)
retag(p, s, n) ==
    IF n > MaxNonce THEN p
    ELSE IF p.txs[<<s, n>>] = None THEN retag(p, s, n + 1)
    ELSE LET e == p.txs[<<s, n>>][1]
         IN  retag([p EXCEPT !.txs[<<s, n>>] =
                        Some([e EXCEPT !.subpool = tag_of(p, e.transaction)])],
                   s, n + 1)

\* recompute the tags of every sender
RECURSIVE update_tags(_, _)
update_tags(p, senders) ==
    IF senders = {} THEN p
    ELSE LET s == CHOOSE x \in senders : TRUE
         IN  update_tags(retag(p, s, 0), senders \ {s})

\* the limits of one subpool: count and bytes
exceeds(p, tag) ==
    LET held_ == subpool(p, tag)
    IN  \/ Cardinality(held_) > p.config.limit[tag].count
        \/ SumOf([t \in held_ |-> t.encoded_size], held_) > p.config.limit[tag].bytes

\* the ordering key of each subpool, as "a is worse than b"
worse(p, tag, a, b) ==
    LET distance(t) == t.nonce - p.state_nonce[t.sender]
        fee_delta(t) == t.max_fee_per_gas - p.base_fee
        blob_delta(t) == t.max_fee_per_blob_gas[1] - p.blob_fee
    IN  CASE tag = "Pending" -> tx_less(a, b)
          [] tag = "Queued" ->
                \/ distance(a) > distance(b)
                \/ distance(a) = distance(b) /\ a.submission_id < b.submission_id
          [] tag = "BaseFee" ->
                \/ fee_delta(a) < fee_delta(b)
                \/ fee_delta(a) = fee_delta(b) /\ a.submission_id < b.submission_id
          [] tag = "Blob" ->
                \/ blob_delta(a) < blob_delta(b)
                \/ blob_delta(a) = blob_delta(b) /\ a.submission_id < b.submission_id

worst(p, tag) ==
    CHOOSE t \in subpool(p, tag) : \A u \in subpool(p, tag) \ {t} : worse(p, tag, t, u)

\* BlobStore::delete_all
delete_all(store, hashes) == store \ hashes

\* BlobStore::insert, for a blob transaction
insert_blob(store, tx) == IF tx.is_eip4844 THEN store \cup {hash(tx)} ELSE store

\* mutant: only the worst transaction is removed
remove_alone(p, tx) ==
    [p EXCEPT !.txs[id(tx)] = None, !.blob_store = delete_all(@, {hash(tx)})]

\* eviction removes a transaction together with its higher-nonce descendants
remove_with_descendants(p, tx) ==
    LET gone == {t \in of_sender(p, tx.sender) : t.nonce >= tx.nonce}
    IN  [p EXCEPT !.txs = [i \in TxIds |->
                     IF i[1] = tx.sender /\ i[2] >= tx.nonce THEN None ELSE p.txs[i]],
                  !.blob_store = delete_all(@, {hash(t) : t \in gone})]

\* mutant: the limits are not enforced
discard_nothing(p) == p

\* eviction: while a subpool exceeds a limit, remove its worst transaction
RECURSIVE discard_worst(_)
discard_worst(p) ==
    LET over == {tag \in SubPools : exceeds(p, tag)}
    IN  IF over = {} THEN p
        ELSE LET tag == CHOOSE t \in over : TRUE
             IN  discard_worst(remove_with_descendants(p, worst(p, tag)))

\* the stateful checks of the validator
validate(p, tx) ==
    /\ tx.nonce >= p.state_nonce[tx.sender]
    /\ p.balance[tx.sender] >= tx.cost

\* mutant: a fee equal to the bumped fee does not replace
bumped_strictly(new_fee, old_fee, bump) == new_fee * 100 > old_fee * (100 + bump)

\* new >= old * (1 + bump), with bump in percent
bumped(new_fee, old_fee, bump) == new_fee * 100 >= old_fee * (100 + bump)

\* replacement economics: every fee field present on both must be bumped
is_underpriced(p, existing, replacement) ==
    LET bump == IF existing.is_eip4844 \/ replacement.is_eip4844
                THEN p.config.price_bump.blob ELSE p.config.price_bump.default
    IN  \/ ~bumped(replacement.max_fee_per_gas, existing.max_fee_per_gas, bump)
        \/ ~bumped(replacement.max_priority_fee_per_gas,
                   existing.max_priority_fee_per_gas, bump)
        \/ /\ existing.max_fee_per_blob_gas # None
           /\ replacement.max_fee_per_blob_gas # None
           /\ ~bumped(replacement.max_fee_per_blob_gas[1],
                      existing.max_fee_per_blob_gas[1], bump)

\* insert, recompute the tags, evict
insert(p, tx) ==
    LET stamped == [tx EXCEPT !.submission_id = p.submission_id]
        replaced == {hash(e.transaction) :
                        e \in {x \in entries(p) : id(x.transaction) = id(tx)}}
        inserted == [p EXCEPT !.txs[id(tx)] =
                         Some([transaction |-> stamped, subpool |-> "Queued"]),
                              !.submission_id = @ + 1,
                              !.blob_store = insert_blob(delete_all(@, replaced), tx)]
        evicted == discard_worst(retag(inserted, tx.sender, 0))
    IN  [pool |-> evicted,
         outcome |-> IF evicted.txs[id(tx)] = None THEN "DiscardedOnInsert"
                     ELSE "Added"]

\* mutant: a held hash is not noticed
add_transaction_hash_blind(p, tx) ==
    IF ~validate(p, tx) THEN [pool |-> p, outcome |-> "Invalid"]
    ELSE IF p.txs[id(tx)] # None
    THEN IF is_underpriced(p, p.txs[id(tx)][1].transaction, tx)
         THEN [pool |-> p, outcome |-> "ReplacementUnderpriced"]
         ELSE insert(p, tx)
    ELSE IF Cardinality(of_sender(p, tx.sender)) >= p.config.max_account_slots
    THEN [pool |-> p, outcome |-> "SpammerExceededCap"]
    ELSE insert(p, tx)

\* admission of a transaction: [pool, outcome]
add_transaction(p, tx) ==
    IF ~validate(p, tx) THEN [pool |-> p, outcome |-> "Invalid"]
    ELSE IF by_hash(p, hash(tx)) # {} THEN [pool |-> p, outcome |-> "AlreadyKnown"]
    ELSE IF p.txs[id(tx)] # None
    THEN IF is_underpriced(p, p.txs[id(tx)][1].transaction, tx)
         THEN [pool |-> p, outcome |-> "ReplacementUnderpriced"]
         ELSE insert(p, tx)
    ELSE IF Cardinality(of_sender(p, tx.sender)) >= p.config.max_account_slots
    THEN [pool |-> p, outcome |-> "SpammerExceededCap"]
    ELSE insert(p, tx)

\* the validator's outcome for one transaction
validate_transaction(p, tx) == [transaction |-> tx, valid |-> validate(p, tx)]

\* mutant: the outcomes come back in the reverse of the input's order
validate_all_reversed(p, transactions) ==
    [i \in 1..Len(transactions) |->
        [hash |-> hash(transactions[Len(transactions) + 1 - i]),
         outcome |-> validate_transaction(p, transactions[Len(transactions) + 1 - i])]]

\* Pool::validate_all: the (hash, outcome) pairs in the input's order
validate_all(p, transactions) ==
    [i \in 1..Len(transactions) |->
        [hash |-> hash(transactions[i]),
         outcome |-> validate_transaction(p, transactions[i])]]

\* PoolInner::add_transactions: the outcomes are admitted one after the
\* other; [pool, results], a result being [hash, outcome]
RECURSIVE add_transactions(_, _)
add_transactions(p, outcomes) ==
    IF outcomes = <<>> THEN [pool |-> p, results |-> <<>>]
    ELSE LET tx == Head(outcomes).transaction
             r == IF Head(outcomes).valid THEN add_transaction(p, tx)
                  ELSE [pool |-> p, outcome |-> "Invalid"]
             rest == add_transactions(r.pool, Tail(outcomes))
         IN  [pool |-> rest.pool,
              results |-> <<[hash |-> hash(tx), outcome |-> r.outcome]>> \o rest.results]

\* Pool::add_transactions: [pool, results, validated], validated being what
\* the validator was asked to validate
pool_add_transactions(p, transactions) ==
    IF transactions = <<>> THEN [pool |-> p, results |-> <<>>, validated |-> <<>>]
    ELSE LET validated == validate_all(p, transactions)
             r == add_transactions(p, [i \in 1..Len(validated) |-> validated[i].outcome])
         IN  [pool |-> r.pool, results |-> r.results, validated |-> transactions]

\* the rest of Pool::add_transaction, for the results of the inner call:
\* `results.pop().expect(..)`
pop_expect(r) ==
    IF r.results = <<>> THEN [pool |-> r.pool, outcome |-> "panic"]
    ELSE [pool |-> r.pool, outcome |-> r.results[Len(r.results)].outcome]

\* Pool::add_transaction: validate, add the one outcome, pop the one result
pool_add_transaction(p, tx) ==
    pop_expect(add_transactions(p, <<validate_transaction(p, tx)>>))

\* mutant: the transaction is inserted before it is validated
await_validate_inserting(p, tx) ==
    [pool |-> add_transaction(p, tx).pool, call |-> [pc |-> "validating", tx |-> tx]]

\* Pool::add_transaction up to its await: the future is suspended in
\* `self.validate(origin, transaction).await`; [pool, call]
await_validate(p, tx) == [pool |-> p, call |-> [pc |-> "validating", tx |-> tx]]

\* Pool::add_transaction after its await, for the validator's outcome: add
\* the one outcome under the pool's lock, pop the one result
resume(p, call) == pop_expect(add_transactions(p, <<call.outcome>>))

\* drop the held transactions below the on-chain nonce
drop_stale(p) ==
    LET stale == {e.transaction : e \in {x \in entries(p) :
                     x.transaction.nonce < p.state_nonce[x.transaction.sender]}}
    IN  [p EXCEPT !.txs = [i \in TxIds |->
                     IF i[2] < p.state_nonce[i[1]] THEN None ELSE p.txs[i]],
                  !.blob_store = delete_all(@, {hash(t) : t \in stale})]

\* update_accounts: the changed accounts' nonce and balance, then tags, limits
update_accounts(p, accounts) ==
    LET changed == [p EXCEPT
            !.state_nonce = [s \in Senders |->
                IF s \in DOMAIN accounts THEN accounts[s].nonce ELSE @[s]],
            !.balance = [s \in Senders |->
                IF s \in DOMAIN accounts THEN accounts[s].balance ELSE @[s]]]
    IN  discard_worst(update_tags(drop_stale(changed), Senders))

\* mutant: the fees are stored and the tags are left as they were
set_block_info_stale(p, info) ==
    [p EXCEPT !.base_fee = info.base_fee, !.blob_fee = info.blob_fee]

\* set_block_info: the pool-wide fees, then tags, limits
set_block_info(p, info) ==
    discard_worst(update_tags(
        [p EXCEPT !.base_fee = info.base_fee, !.blob_fee = info.blob_fee], Senders))

\* mutant: the sidecars of the mined transactions are left in the store
remove_mined_keeping_sidecars(p, mined) ==
    LET gone == {e.transaction : e \in {x \in entries(p) : hash(x.transaction) \in mined}}
        next_nonce(s) ==
            LET ns == {t.nonce + 1 : t \in {g \in gone : g.sender = s}}
                        \cup {p.state_nonce[s]}
            IN  CHOOSE n \in ns : \A m \in ns : m <= n
    IN  [p EXCEPT !.txs = [i \in TxIds |->
                     IF p.txs[i] # None /\ p.txs[i][1].transaction \in gone
                     THEN None ELSE p.txs[i]],
                  !.state_nonce = [s \in Senders |-> next_nonce(s)]]

\* remove the mined transactions by hash; the sender's nonce advances; their
\* sidecars are deleted
remove_mined(p, mined) ==
    LET gone == {e.transaction : e \in {x \in entries(p) : hash(x.transaction) \in mined}}
        next_nonce(s) ==
            LET ns == {t.nonce + 1 : t \in {g \in gone : g.sender = s}}
                        \cup {p.state_nonce[s]}
            IN  CHOOSE n \in ns : \A m \in ns : m <= n
    IN  [p EXCEPT !.txs = [i \in TxIds |->
                     IF p.txs[i] # None /\ p.txs[i][1].transaction \in gone
                     THEN None ELSE p.txs[i]],
                  !.state_nonce = [s \in Senders |-> next_nonce(s)],
                  !.blob_store = delete_all(@, mined)]

\* on_canonical_state_change: fees, mined transactions, changed accounts, tags,
\* limits
on_canonical_state_change(p, update) ==
    LET with_fees == [p EXCEPT !.base_fee = update.base_fee,
                               !.blob_fee = update.blob_fee]
    IN  update_accounts(remove_mined(with_fees, update.mined), update.changed_accounts)

\* remove_transactions: explicit removal by hash
remove_transactions(p, hashes) ==
    update_tags(
        [p EXCEPT !.txs = [i \in TxIds |->
            IF p.txs[i] # None /\ hash(p.txs[i][1].transaction) \in hashes
            THEN None ELSE p.txs[i]],
                  !.blob_store = delete_all(@, hashes)],
        Senders)

\* mutant: every held transaction is handed to the iterator
best_transactions_all(p) ==
    LET ready == {e.transaction : e \in entries(p)}
    IN  [all |-> [i \in TxIds |->
                    IF \E t \in ready : id(t) = i
                    THEN Some(CHOOSE t \in ready : id(t) = i) ELSE None],
         independent |-> {t \in ready :
                            \A u \in ready : u.sender = t.sender => u.nonce >= t.nonce},
         invalid |-> {},
         new_transaction_receiver |-> FALSE,
         last_priority |-> None,
         skip_blobs |-> FALSE]

\* best_transactions(): the iterator over a copy of the Pending subpool, the
\* chain heads in `independent`
best_transactions(p) ==
    LET ready == subpool(p, "Pending")
    IN  [all |-> [i \in TxIds |->
                    IF \E t \in ready : id(t) = i
                    THEN Some(CHOOSE t \in ready : id(t) = i) ELSE None],
         independent |-> {t \in ready :
                            \A u \in ready : u.sender = t.sender => u.nonce >= t.nonce},
         invalid |-> {},
         new_transaction_receiver |-> FALSE,
         last_priority |-> None,
         skip_blobs |-> FALSE]

\* best_transactions().collect()
RECURSIVE collect(_)
collect(self) ==
    LET r == next(self, [lagged |-> FALSE, queue |-> <<>>], {})
    IN  IF r.item = None THEN <<>> ELSE <<r.item[1]>> \o collect(r.self)

\* a pool with the given configuration and sender state, holding nothing
new_pool(config, nonces, balances, fee, blob_fee) ==
    [txs |-> [i \in TxIds |-> None],
     state_nonce |-> nonces,
     balance |-> balances,
     base_fee |-> fee,
     blob_fee |-> blob_fee,
     submission_id |-> 0,
     blob_store |-> {},
     config |-> config]

\* a configuration with one limit for every subpool
PoolConfig(pending_count, count, bytes, slots) ==
    [limit |-> [tag \in SubPools |->
                   [count |-> IF tag = "Pending" THEN pending_count ELSE count,
                    bytes |-> bytes]],
     max_account_slots |-> slots,
     price_bump |-> [default |-> 10, blob |-> 100]]

\* no pool is modelled next to the iterator
no_pool ==
    /\ pool = new_pool(PoolConfig(0, 0, 0, 0), [s \in Senders |-> 0],
                       [s \in Senders |-> 0], 0, 0)
    /\ outcome = <<>>
    /\ no_calls
    /\ no_engine

\* no iterator is modelled next to the pool
no_iterator ==
    /\ best = best_transactions(pool)
    /\ chan = [lagged |-> FALSE, queue |-> <<>>]
    /\ submission_id = FirstLiveId
    /\ snapshot = {}
    /\ yielded = <<>>
    /\ skipped = {}
    /\ discarded = {}
    /\ marked = {}
    /\ suppressed = {}
    /\ frozen = None
    /\ no_wrapper

\* ---------------------------------------------------------------- actions
\* the pool broadcasts a transaction that became pending; a full channel
\* overwrites its oldest message and the receiver lags
Send(vs, capacity) ==
    /\ submission_id < FirstLiveId + MaxSends
    /\ \E s \in Senders, n \in Nonces, v \in Canonical(vs) :
         LET tx == Tx(s, n, submission_id, v)
         IN  chan' = IF Len(chan.queue) < capacity
                     THEN [chan EXCEPT !.queue = Append(@, tx)]
                     ELSE [lagged |-> TRUE, queue |-> Append(Tail(chan.queue), tx)]
    /\ submission_id' = submission_id + 1
    /\ UNCHANGED <<best, snapshot, yielded, skipped, discarded, marked, suppressed,
                   frozen, base_fee, base_fee_per_blob_gas, predicate,
                   wrapper, produced, path, pool, outcome, calls,
                   engine>>

\* the consumer calls next() on the BestTransactions
Next_ ==
    /\ Returned(next(best, chan, {}))
    /\ UNCHANGED <<discarded, wrapper, produced, path>>

\* add_new_transactions() alone, as the unit tests call it
AddNewTransactions ==
    LET r == add_new_transactions(best, chan)
    IN  /\ best' = r.self
        /\ chan' = r.chan
        /\ suppressed' = suppressed \cup above_last(best, chan, r.chan)
        /\ UNCHANGED <<submission_id, snapshot, yielded, skipped, discarded, marked,
                       frozen, base_fee, base_fee_per_blob_gas, predicate,
                       wrapper, produced, path, pool, outcome, calls,
                   engine>>

\* the consumer calls next() on the BestTransactionsWithFees
WithFeesNext ==
    LET r == with_fees_next(best, chan, base_fee, base_fee_per_blob_gas, {}, {})
    IN  /\ Returned(r)
        /\ discarded' = discarded \cup r.discarded
        /\ UNCHANGED <<wrapper, produced, path>>

\* the consumer calls next() on the BestTransactionFilter
FilterNext ==
    LET r == filter_next(best, chan, predicate, {}, {})
    IN  /\ Returned(r)
        /\ discarded' = discarded \cup r.discarded
        /\ UNCHANGED <<wrapper, produced, path>>

\* the transactions the consumer can name
Known == held(best.all) \cup best.independent \cup {yielded[k] : k \in DOMAIN yielded}

\* mark_invalid of the iterator or, delegating, of a wrapper
MarkInvalid ==
    /\ \E tx \in Known :
         /\ best' = mark_invalid(best, tx)
         /\ marked' = marked \cup {tx.sender}
    /\ UNCHANGED <<chan, submission_id, snapshot, yielded, skipped, discarded,
                   suppressed, frozen, base_fee, base_fee_per_blob_gas, predicate,
                   wrapper, produced, path, pool, outcome, calls,
                   engine>>

NoUpdates ==
    /\ best' = no_updates(best)
    /\ frozen' = IF frozen = None
                 THEN Some([all |-> held(best.all), stray |-> {}])
                 ELSE frozen
    /\ UNCHANGED <<chan, submission_id, snapshot, yielded, skipped, discarded, marked,
                   suppressed, base_fee, base_fee_per_blob_gas, predicate,
                   wrapper, produced, path, pool, outcome, calls,
                   engine>>

SetSkipBlobs ==
    /\ \E skip \in BOOLEAN : best' = set_skip_blobs(best, skip)
    /\ UNCHANGED <<chan, submission_id, snapshot, yielded, skipped, discarded, marked,
                   suppressed, frozen, base_fee, base_fee_per_blob_gas, predicate,
                   wrapper, produced, path, pool, outcome, calls,
                   engine>>

\* the consumer calls next() on the BestTransactionsWithPrioritizedSenders
PrioritizedNext ==
    LET r == prioritized_next(wrapper, best, chan)
    IN  /\ Returned(r)
        /\ wrapper' = r.wrapper
        /\ produced' = produced \o r.produced
        /\ path' = IF r.item = None THEN path ELSE Append(path, r.path)
        /\ UNCHANGED discarded

\* the consumer calls set_skip_blobs on the
\* BestTransactionsWithPrioritizedSenders
PrioritizedSetSkipBlobs ==
    /\ \E skip \in BOOLEAN :
         LET r == prioritized_set_skip_blobs(wrapper, best, skip)
         IN  /\ wrapper' = r.wrapper
             /\ best' = r.self
             /\ discarded' = discarded \cup r.dropped
    /\ UNCHANGED <<chan, submission_id, snapshot, yielded, skipped, marked,
                   suppressed, frozen, base_fee, base_fee_per_blob_gas, predicate,
                   produced, path, pool, outcome, calls, engine>>

\* a caller submits a transaction: validation, then admission
AddTransaction(senders, vs, recorded) ==
    /\ pool.submission_id < MaxSubmissions
    /\ Len(outcome) < MaxSubmissions
    /\ \E s \in senders, n \in Nonces, v \in vs :
         LET r == pool_add_transaction(pool, ValidTx(s, n, v))
         IN  /\ pool' = r.pool
             /\ outcome' = IF recorded
                           THEN Append(outcome, [tx |-> ValidTx(s, n, v),
                                                 result |-> r.outcome])
                           ELSE outcome
    /\ UNCHANGED <<calls, engine, iterator_vars>>

\* a caller submits a batch of transactions; the log records each result
\* with its position in the batch
AddTransactions(senders, vs) ==
    /\ \E txs \in UNION {[1..k -> {ValidTx(s, n, v) : s \in senders, n \in Nonces, v \in vs}] :
                             k \in 0..MaxBatch} :
         LET r == pool_add_transactions(pool, txs)
         IN  /\ Len(outcome) + Len(txs) <= MaxSubmissions
             /\ pool' = r.pool
             /\ outcome' = outcome \o [i \in 1..Len(r.results) |->
                                          [tx |-> txs[i], result |-> r.results[i].outcome,
                                           index |-> i]]
    /\ UNCHANGED <<calls, engine, iterator_vars>>

Callers == 1..MaxCallers

\* no future of the caller is in flight
Idle == [pc |-> "idle"]

\* a caller calls add_transaction: the future runs up to the validator
Call(senders, vs) ==
    /\ \E c \in Callers, s \in senders, n \in Nonces, v \in vs :
         LET r == await_validate(pool, ValidTx(s, n, v))
         IN  /\ calls[c] = Idle
             /\ pool' = r.pool
             /\ calls' = [calls EXCEPT ![c] = r.call]
    /\ UNCHANGED <<outcome, engine, iterator_vars>>

\* the validator finishes with the transaction of a suspended future
Validated ==
    /\ \E c \in Callers :
         /\ calls[c].pc = "validating"
         /\ calls' = [calls EXCEPT ![c] =
                         [pc |-> "validated", tx |-> calls[c].tx,
                          outcome |-> validate_transaction(pool, calls[c].tx)]]
    /\ UNCHANGED <<pool, outcome, engine, iterator_vars>>

\* the future is dropped while it awaits the validation
Cancel ==
    /\ \E c \in Callers :
         /\ calls[c] # Idle
         /\ calls' = [calls EXCEPT ![c] = Idle]
    /\ UNCHANGED <<pool, outcome, engine, iterator_vars>>

\* the future is polled after the validation and runs to its end; the log
\* records whether another future for the same transaction was in flight
Resume ==
    /\ Len(outcome) < MaxSubmissions
    /\ \E c \in Callers :
         /\ calls[c].pc = "validated"
         /\ LET r == resume(pool, calls[c])
            IN  /\ pool' = r.pool
                /\ outcome' = Append(outcome,
                        [tx |-> calls[c].tx, result |-> r.outcome, caller |-> c,
                         overlapped |-> \E d \in Callers \ {c} :
                                           calls[d] # Idle /\ calls[d].tx = calls[c].tx])
         /\ calls' = [calls EXCEPT ![c] = Idle]
    /\ UNCHANGED <<engine, iterator_vars>>

\* a new canonical block: fees and either the held transactions of one sender
\* it mined or that sender's changed account
OnCanonicalStateChange(senders, fees, blob_fees, balances) ==
    /\ \E fee \in fees, blob_fee \in blob_fees, s \in senders,
          nonce \in 0..(MaxNonce + 1), account \in {None} \cup {Some(b) : b \in balances} :
         LET mined == IF account = None
                      THEN {hash(t) : t \in {u \in of_sender(pool, s) : u.nonce < nonce}}
                      ELSE {}
             update == [base_fee |-> fee, blob_fee |-> blob_fee, mined |-> mined,
                        changed_accounts |->
                            IF account = None
                            THEN <<>>
                            ELSE [x \in {s} |-> [nonce |-> nonce, balance |-> account[1]]]]
         IN  pool' = on_canonical_state_change(pool, update)
    /\ UNCHANGED <<outcome, calls, engine, iterator_vars>>

UpdateAccounts(senders, balances) ==
    /\ \E s \in senders, nonce \in 0..(MaxNonce + 1), balance \in balances :
         pool' = update_accounts(pool, [x \in {s} |-> [nonce |-> nonce, balance |-> balance]])
    /\ UNCHANGED <<outcome, calls, engine, iterator_vars>>

SetBlockInfo(fees, blob_fees) ==
    /\ \E fee \in fees, blob_fee \in blob_fees :
         pool' = set_block_info(pool, [base_fee |-> fee, blob_fee |-> blob_fee])
    /\ UNCHANGED <<outcome, calls, engine, iterator_vars>>

RemoveTransactions ==
    /\ \E e \in entries(pool) :
         pool' = remove_transactions(pool, {hash(e.transaction)})
    /\ UNCHANGED <<outcome, calls, engine, iterator_vars>>

\* the pool sends each transaction that became pending to the subscribed
\* receiver, in nonce order; a full channel overwrites its oldest message
RECURSIVE broadcast(_, _, _)
broadcast(ch, txs, capacity) ==
    IF txs = {} THEN ch
    ELSE LET tx == CHOOSE t \in txs : \A u \in txs : <<t.sender, t.nonce>> = <<u.sender, u.nonce>>
                                                   \/ t.sender < u.sender
                                                   \/ (t.sender = u.sender /\ t.nonce < u.nonce)
             sent == IF Len(ch.queue) < capacity
                     THEN [ch EXCEPT !.queue = Append(@, tx)]
                     ELSE [lagged |-> TRUE, queue |-> Append(Tail(ch.queue), tx)]
         IN  broadcast(sent, txs \ {tx}, capacity)

\* a caller submits a transaction while an iterator is subscribed: what
\* became pending is broadcast
AddTransactionNotifying(senders, vs) ==
    /\ pool.submission_id < MaxSubmissions
    /\ \E s \in senders, n \in Nonces, v \in vs :
         LET r == pool_add_transaction(pool, ValidTx(s, n, v))
             promoted == subpool(r.pool, "Pending") \ subpool(pool, "Pending")
         IN  /\ pool' = r.pool
             /\ chan' = IF best.new_transaction_receiver
                        THEN broadcast(chan, promoted, ChanCapacity)
                        ELSE chan
    /\ UNCHANGED <<best, submission_id, base_fee, base_fee_per_blob_gas, predicate,
                   snapshot, yielded, skipped, discarded, marked, suppressed, frozen,
                   wrapper, produced, path, outcome, calls, engine>>

\* an iterator that holds nothing and listens to nothing
dropped ==
    [all |-> [i \in TxIds |-> None],
     independent |-> {},
     invalid |-> {},
     new_transaction_receiver |-> FALSE,
     last_priority |-> None,
     skip_blobs |-> FALSE]

\* mutant: dropping the iterator takes what it held out of the pool
DropReleasing ==
    /\ best # dropped
    /\ best' = dropped
    /\ chan' = [lagged |-> FALSE, queue |-> <<>>]
    /\ pool' = remove_transactions(pool, {hash(t) : t \in held(best.all) \cup best.independent})
    /\ UNCHANGED <<submission_id, base_fee, base_fee_per_blob_gas, predicate,
                   snapshot, yielded, skipped, discarded, marked, suppressed, frozen,
                   wrapper, produced, path, outcome, calls, engine>>

\* the consumer drops the iterator: the maps and the receiver it owns go
Drop ==
    /\ best # dropped
    /\ best' = dropped
    /\ chan' = [lagged |-> FALSE, queue |-> <<>>]
    /\ UNCHANGED <<submission_id, base_fee, base_fee_per_blob_gas, predicate,
                   snapshot, yielded, skipped, discarded, marked, suppressed, frozen,
                   wrapper, produced, path, pool, outcome, calls, engine>>

\* ---------------------------------------------------------- specifications
\* BestTransactions with live updates, over transactions that differ in priority
CoreVariants == Variants(Priorities, {FALSE}, {1}, {1})

Init == InitWith(CoreVariants, MaxSnapshot) /\ no_wrapper /\ no_pool

SendCore == Send(CoreVariants, ChanCapacity)

Next == Next_ \/ MarkInvalid \/ NoUpdates \/ SendCore

Spec == Init /\ [][Next]_vars

\* the same with add_new_transactions() called on its own
NextAdd == Next_ \/ AddNewTransactions \/ SendCore

SpecAdd == Init /\ [][NextAdd]_vars

\* BestTransactions behind a channel that overflows
SendLagging == Send(CoreVariants, LagCapacity)

NextLagged == Next_ \/ SendLagging

SpecLagged == Init /\ [][NextLagged]_vars

\* BestTransactions with skip_blobs, over blob and non-blob transactions
BlobVariants == Variants({1}, BOOLEAN, {1}, {1})

InitBlobs == InitWith(BlobVariants, MaxSnapshot) /\ no_wrapper /\ no_pool

SendBlobs == Send(BlobVariants, ChanCapacity)

NextBlobs == Next_ \/ MarkInvalid \/ SetSkipBlobs \/ SendBlobs

SpecBlobs == InitBlobs /\ [][NextBlobs]_vars

\* BestTransactions over a snapshot alone
StaticVariants == Variants(Priorities, BOOLEAN, {1}, {1})

InitStatic == InitWith(StaticVariants, MaxStatic + 1) /\ no_wrapper /\ no_pool

NextStatic == Next_

SpecStatic == InitStatic /\ [][NextStatic]_vars

\* BestTransactionsWithFees over a snapshot
FeeVariants == Variants(Priorities, BOOLEAN, Fees, {1})

InitFees ==
    /\ InitWith(FeeVariants, MaxStatic)
    /\ base_fee \in Fees
    /\ base_fee_per_blob_gas \in Fees
    /\ predicate = "none"
    /\ not_prioritized
    /\ no_pool

NextFees == WithFeesNext \/ MarkInvalid

SpecFees == InitFees /\ [][NextFees]_vars

\* BestTransactionsWithPrioritizedSenders with skip_blobs, over a snapshot of
\* blob and non-blob transactions
InitPrioritizedBlobs ==
    /\ InitWith(BlobVariants, MaxStatic)
    /\ base_fee = 0
    /\ base_fee_per_blob_gas = 0
    /\ predicate = "none"
    /\ \E senders \in SUBSET Senders, max_gas \in 0..MaxPrioritizedGas :
         wrapper = new(senders, max_gas)
    /\ produced = <<>>
    /\ path = <<>>
    /\ no_pool

NextPrioritizedBlobs == PrioritizedNext \/ PrioritizedSetSkipBlobs

SpecPrioritizedBlobs == InitPrioritizedBlobs /\ [][NextPrioritizedBlobs]_vars

\* BestTransactionsWithFees with live updates, over non-blob transactions
\* that differ in priority and fee
LiveFeeVariants == Variants(Priorities, {FALSE}, Fees, {1})

InitFeesLive ==
    /\ InitWith(LiveFeeVariants, MaxSnapshot)
    /\ base_fee = MaxFee
    /\ base_fee_per_blob_gas = 1
    /\ predicate = "none"
    /\ not_prioritized
    /\ no_pool

SendFees == Send(LiveFeeVariants, ChanCapacity)

NextFeesLive == WithFeesNext \/ SendFees

SpecFeesLive == InitFeesLive /\ [][NextFeesLive]_vars

\* BestTransactionFilter over a snapshot
InitFilter ==
    /\ InitWith(StaticVariants, MaxStatic)
    /\ base_fee = 0
    /\ base_fee_per_blob_gas = 0
    /\ predicate \in Predicates
    /\ not_prioritized
    /\ no_pool

NextFilter == FilterNext \/ MarkInvalid

SpecFilter == InitFilter /\ [][NextFilter]_vars

\* BestTransactionsWithPrioritizedSenders over a snapshot
GasVariants == Variants(Priorities, {FALSE}, {1}, GasLimits)

InitPrioritized ==
    /\ InitWith(GasVariants, MaxStatic)
    /\ base_fee = 0
    /\ base_fee_per_blob_gas = 0
    /\ predicate = "none"
    /\ \E senders \in SUBSET Senders, max_gas \in 0..MaxPrioritizedGas :
         wrapper = new(senders, max_gas)
    /\ produced = <<>>
    /\ path = <<>>
    /\ no_pool

NextPrioritized == PrioritizedNext \/ MarkInvalid

SpecPrioritized == InitPrioritized /\ [][NextPrioritized]_vars

\* the subpool engine over the chain of one sender, whose transactions differ
\* in their fees, under limits that do not bind and limits that do
ChainVariants == PoolVariants({1}, {FALSE}, Fees, Fees, {1}, {1})

ChainBalances == Balances

Roomy == PoolConfig(MaxNonce + 1, MaxNonce + 1, MaxNonce + 1, MaxNonce + 1)

\* limits that make eviction act on a chain
Tight == PoolConfig(MaxNonce, 1, MaxNonce, MaxNonce + 1)

InitPool ==
    /\ \E config \in {Roomy, Tight} :
         pool = new_pool(config, [s \in Senders |-> 0],
                         [s \in Senders |-> MaxBalance], 1, 1)
    /\ outcome = <<>>
    /\ no_calls
    /\ no_engine
    /\ no_iterator
    /\ not_prioritized

ChainSenders == {1}

AddChain == AddTransaction(ChainSenders, ChainVariants, FALSE)

NextPool ==
    \/ AddChain
    \/ OnCanonicalStateChange(ChainSenders, BaseFees, {1}, ChainBalances)
    \/ UpdateAccounts(ChainSenders, ChainBalances)
    \/ SetBlockInfo(BaseFees, {1})
    \/ RemoveTransactions

SpecPool == InitPool /\ [][NextPool]_vars

\* replacement at a held (sender, nonce): one sender submits fee-market
\* transactions and another blob transactions, around the fee bump
LegacyVariants == PoolVariants({1}, {FALSE}, {100, 109, 110}, {10, 11}, {1}, {1})

BlobPoolVariants == PoolVariants({1}, {TRUE}, {100, 200}, {10, 20}, {1}, {1})

InitReplace ==
    /\ pool = new_pool(Roomy, [s \in Senders |-> 0],
                       [s \in Senders |-> MaxBalance], 1, 1)
    /\ outcome = <<>>
    /\ no_calls
    /\ no_engine
    /\ no_iterator
    /\ not_prioritized

AddLegacy == AddTransaction({1}, LegacyVariants, TRUE)

AddBlob == AddTransaction({2}, BlobPoolVariants, TRUE)

NextReplace == AddLegacy \/ AddBlob

SpecReplace == InitReplace /\ [][NextReplace]_vars

\* the four public operations under limits that bind, over transactions that
\* differ in encoded size
SizedVariants == PoolVariants({1}, {FALSE}, {MaxFee}, {1}, {1}, {1, 2})

InitLimits ==
    /\ pool = new_pool(Tight, [s \in Senders |-> 0],
                       [s \in Senders |-> MaxBalance], 1, 1)
    /\ outcome = <<>>
    /\ no_calls
    /\ no_engine
    /\ no_iterator
    /\ not_prioritized

AddSized == AddTransaction(Senders, SizedVariants, FALSE)

NextLimits ==
    \/ AddSized
    \/ OnCanonicalStateChange(ChainSenders, {1, MaxFee + 1}, {1}, {MaxBalance})
    \/ UpdateAccounts(ChainSenders, {1, MaxBalance})
    \/ SetBlockInfo(BaseFees, {1})

SpecLimits == InitLimits /\ [][NextLimits]_vars

\* admission alone, of equal-priority transactions, under a Pending count
\* limit below the length of a chain
EqualVariants == PoolVariants({1}, {FALSE}, {MaxFee}, {1}, {1}, {1})

\* only the Pending count limit binds
Narrow == PoolConfig(MaxNonce - 1, MaxNonce + 1, MaxNonce + 1, MaxNonce + 1)

InitEvict ==
    /\ pool = new_pool(Narrow, [s \in Senders |-> 0],
                       [s \in Senders |-> MaxBalance], 1, 1)
    /\ outcome = <<>>
    /\ no_calls
    /\ no_engine
    /\ no_iterator
    /\ not_prioritized

AddEqual == AddTransaction({1, 2}, EqualVariants, TRUE)

NextEvict == AddEqual

SpecEvict == InitEvict /\ [][NextEvict]_vars

\* admission alone, with the default price bump and with none, so that only
\* the hash check stands between a resubmission and a replacement
NoBump == [Roomy EXCEPT !.price_bump = [default |-> 0, blob |-> 0]]

InitKnown ==
    /\ \E config \in {Roomy, NoBump} :
         pool = new_pool(config, [s \in Senders |-> 0],
                         [s \in Senders |-> MaxBalance], 1, 1)
    /\ outcome = <<>>
    /\ no_calls
    /\ no_engine
    /\ no_iterator
    /\ not_prioritized

AddKnown == AddTransaction(ChainSenders, ChainVariants, TRUE)

NextKnown == AddKnown

SpecKnown == InitKnown /\ [][NextKnown]_vars

\* blob and fee-market transactions of one sender, mined by canonical
\* updates, evicted, removed and moved by the blob fee
MinedVariants == PoolVariants({1}, BOOLEAN, {MaxFee}, {1}, {1}, {1})

InitMined ==
    /\ \E config \in {Roomy, Tight} :
         pool = new_pool(config, [s \in Senders |-> 0],
                         [s \in Senders |-> MaxBalance], 1, 1)
    /\ outcome = <<>>
    /\ no_calls
    /\ no_engine
    /\ no_iterator
    /\ not_prioritized

AddMined == AddTransaction(ChainSenders, MinedVariants, FALSE)

NextMined ==
    \/ AddMined
    \/ OnCanonicalStateChange(ChainSenders, {1}, BaseFees, {})
    \/ SetBlockInfo({1}, BaseFees)
    \/ RemoveTransactions

SpecMined == InitMined /\ [][NextMined]_vars

\* admission in batches
InitBatch ==
    /\ pool = new_pool(Roomy, [s \in Senders |-> 0],
                       [s \in Senders |-> MaxBalance], 1, 1)
    /\ outcome = <<>>
    /\ no_calls
    /\ no_engine
    /\ no_iterator
    /\ not_prioritized

AddBatch == AddTransactions(ChainSenders, ChainVariants)

NextBatch == AddBatch

SpecBatch == InitBatch /\ [][NextBatch]_vars

\* an iterator created over a pool that holds transactions, and the pool
\* changing under it
CopyVariants == PoolVariants(Priorities, {FALSE}, {MaxFee}, {1}, {1}, {1})

CopyBatches ==
    UNION {[1..k -> {ValidTx(s, n, v) : s \in ChainSenders, n \in 0..1, v \in CopyVariants}] :
           k \in 1..2}

InitCopy ==
    /\ \E batch \in CopyBatches :
         pool = pool_add_transactions(
                    new_pool(Roomy, [s \in Senders |-> 0],
                             [s \in Senders |-> MaxBalance], 1, 1),
                    batch).pool
    /\ outcome = <<>>
    /\ no_calls
    /\ no_engine
    /\ best = [best_transactions(pool) EXCEPT !.new_transaction_receiver = TRUE]
    /\ snapshot = held(best.all)
    /\ chan = [lagged |-> FALSE, queue |-> <<>>]
    /\ submission_id = FirstLiveId
    /\ yielded = <<>>
    /\ skipped = {}
    /\ discarded = {}
    /\ marked = {}
    /\ suppressed = {}
    /\ frozen = None
    /\ no_wrapper

AddCopy == AddTransactionNotifying(Senders, CopyVariants)

NextCopy ==
    \/ Next_
    \/ MarkInvalid
    \/ SetSkipBlobs
    \/ NoUpdates
    \/ Drop
    \/ AddCopy
    \/ RemoveTransactions

SpecCopy == InitCopy /\ [][NextCopy]_vars

\* ------------------------------------------------------------- engine API
\* the most payload bodies one request may ask for
MAX_PAYLOAD_BODIES_LIMIT == 1024

U64_MAX == 2 ^ U64Bits - 1

saturating_add(a, b) == IF a + b > U64_MAX THEN U64_MAX ELSE a + b

Ok(x) == [ok |-> TRUE, value |-> x]
Err(e) == [ok |-> FALSE, err |-> e]

BlockHash(n) == <<"hash", n>>

\* the block of a number, and the payload body the caller's f maps it to
Block(n) == [number |-> n, hash |-> BlockHash(n), transactions |-> <<n>>]
body(block) == [transactions |-> block.transactions]

Number(n) == [kind |-> "Number", value |-> n]
Hash(h) == [kind |-> "Hash", value |-> h]

\* Provider::block: the block of a number or hash, None when the provider
\* has none, an error when the read fails
provider_block(provider, block_id) ==
    LET n == IF block_id.kind = "Number" THEN block_id.value ELSE block_id.value[2]
    IN  IF n \notin DOMAIN provider.blocks THEN Ok(None)
        ELSE CASE provider.blocks[n] = "present" -> Ok(Some(Block(n)))
               [] provider.blocks[n] = "missing" -> Ok(None)
               [] OTHER -> Err("provider")

\* Option::map
map_option(o) == IF o = None THEN None ELSE Some(body(o[1]))

\* the read loop of both requests over the block ids to read, in order: a
\* result per read block, up to the first failing read, which ends the
\* request; [response, reads]
read_blocks(provider, ids) ==
    LET failing == {i \in DOMAIN ids : ~provider_block(provider, ids[i]).ok}
    IN  IF failing = {}
        THEN [response |-> Ok([i \in DOMAIN ids |->
                                  map_option(provider_block(provider, ids[i]).value)]),
              reads |-> ids]
        ELSE LET failed == CHOOSE i \in failing : \A j \in failing : i <= j
             IN  [response |-> Err("Internal"), reads |-> SubSeq(ids, 1, failed)]

\* start..=end as block ids
range_inclusive(start, end) ==
    IF end < start THEN <<>> ELSE [i \in 1..(end - start + 1) |-> Number(start + i - 1)]

\* mutant: the range is validated before the size of the request
get_payload_bodies_by_range_range_first(provider, start, count) ==
    IF start = 0 \/ count = 0
    THEN [response |-> Err("InvalidBodiesRange"), reads |-> <<>>]
    ELSE IF count > MAX_PAYLOAD_BODIES_LIMIT
    THEN [response |-> Err("PayloadRequestTooLarge"), reads |-> <<>>]
    ELSE read_blocks(provider, range_inclusive(start, saturating_add(start, count - 1)))

\* mutant: the range is never cut at the best block
get_payload_bodies_by_range_untruncated(provider, start, count) ==
    IF count > MAX_PAYLOAD_BODIES_LIMIT
    THEN [response |-> Err("PayloadRequestTooLarge"), reads |-> <<>>]
    ELSE IF start = 0 \/ count = 0
    THEN [response |-> Err("InvalidBodiesRange"), reads |-> <<>>]
    ELSE read_blocks(provider, range_inclusive(start, saturating_add(start, count - 1)))

\* EngineApi::get_payload_bodies_by_range_with; [response, reads]
get_payload_bodies_by_range_with(provider, start, count) ==
    IF count > MAX_PAYLOAD_BODIES_LIMIT
    THEN [response |-> Err("PayloadRequestTooLarge"), reads |-> <<>>]
    ELSE IF start = 0 \/ count = 0
    THEN [response |-> Err("InvalidBodiesRange"), reads |-> <<>>]
    ELSE LET end == saturating_add(start, count - 1)
             best_block == provider.best_block_number
             truncated == IF best_block.ok /\ end > best_block.value
                          THEN best_block.value ELSE end
         IN  read_blocks(provider, range_inclusive(start, truncated))

\* EngineApi::get_payload_bodies_by_hash_with; [response, reads]
get_payload_bodies_by_hash_with(provider, hashes) ==
    IF Len(hashes) > MAX_PAYLOAD_BODIES_LIMIT
    THEN [response |-> Err("PayloadRequestTooLarge"), reads |-> <<>>]
    ELSE read_blocks(provider, [i \in DOMAIN hashes |-> Hash(hashes[i])])

\* the providers: any best block number or a failing read of it, and for
\* each number a block, no block, or a failing read
Providers ==
    [best_block_number : {Err("provider")} \cup {Ok(n) : n \in 0..MaxBlock},
     blocks : [1..MaxBlock -> {"present", "missing", "error"}]]

\* the starts and counts of the requests: the edges of the checks, of the
\* provider's blocks and of the number's width
Starts == 0..(MaxBlock + 1) \cup {U64_MAX - 1, U64_MAX}
Counts == 0..MaxBlock \cup {MAX_PAYLOAD_BODIES_LIMIT, MAX_PAYLOAD_BODIES_LIMIT + 1}

\* the requested hash lists: short ones of known and unknown hashes, and
\* one that is too long
HashLists ==
    LET hs == {BlockHash(n) : n \in 1..(MaxBlock + 1)}
    IN  {<<>>} \cup {<<h>> : h \in hs} \cup {<<h, g>> : h \in hs, g \in hs}
        \cup {[i \in 1..(MAX_PAYLOAD_BODIES_LIMIT + 1) |-> BlockHash(1)]}

GetPayloadBodiesByRange ==
    /\ \E start \in Starts, count \in Counts :
         LET r == get_payload_bodies_by_range_with(engine.provider, start, count)
         IN  engine' = [engine EXCEPT
                          !.request = [kind |-> "range", start |-> start, count |-> count],
                          !.response = r.response,
                          !.reads = r.reads]
    /\ UNCHANGED <<pool, outcome, calls, iterator_vars>>

GetPayloadBodiesByHash ==
    /\ \E hashes \in HashLists :
         LET r == get_payload_bodies_by_hash_with(engine.provider, hashes)
         IN  engine' = [engine EXCEPT
                          !.request = [kind |-> "hash", hashes |-> hashes],
                          !.response = r.response,
                          !.reads = r.reads]
    /\ UNCHANGED <<pool, outcome, calls, iterator_vars>>

\* an engine API over any provider, before its first request
InitBodies ==
    /\ pool = new_pool(PoolConfig(0, 0, 0, 0), [s \in Senders |-> 0],
                       [s \in Senders |-> 0], 0, 0)
    /\ outcome = <<>>
    /\ no_calls
    /\ no_iterator
    /\ not_prioritized
    /\ \E provider \in Providers :
         engine = [provider |-> provider, request |-> [kind |-> "none"],
                   response |-> Ok(<<>>), reads |-> <<>>]

NextBodies == GetPayloadBodiesByRange \/ GetPayloadBodiesByHash

SpecBodies == InitBodies /\ [][NextBodies]_vars

\* EngineValidator::ensure_well_formed_attributes
ensure_well_formed_attributes(attrs) ==
    IF attrs.well_formed THEN Ok(<<>>) ELSE Err("InvalidPayloadAttributes")

\* BeaconConsensusEngineHandle::fork_choice_updated: the message the
\* consensus engine receives and its answer; [sent, result]
fork_choice_updated(answer, state, payload_attrs) ==
    [sent |-> <<[state |-> state, payload_attrs |-> payload_attrs]>>, result |-> answer]

\* ForkchoiceUpdated::is_invalid
is_invalid(fcu_res) == fcu_res.status = "INVALID"

\* mutant: malformed attributes are refused before anything is sent
validate_and_execute_forkchoice_refusing(answer, state, payload_attrs) ==
    IF payload_attrs # None /\ ~ensure_well_formed_attributes(payload_attrs[1]).ok
    THEN [sent |-> <<>>, response |-> ensure_well_formed_attributes(payload_attrs[1])]
    ELSE LET fcu == fork_choice_updated(answer, state, payload_attrs)
         IN  [sent |-> fcu.sent, response |-> fcu.result]

\* EngineApi::validate_and_execute_forkchoice, for the answer the consensus
\* engine gives; [sent, response]
validate_and_execute_forkchoice(answer, state, payload_attrs) ==
    IF payload_attrs # None /\ ~ensure_well_formed_attributes(payload_attrs[1]).ok
    THEN LET err == ensure_well_formed_attributes(payload_attrs[1])
             fcu == fork_choice_updated(answer, state, None)
         IN  IF ~fcu.result.ok THEN [sent |-> fcu.sent, response |-> fcu.result]
             ELSE IF is_invalid(fcu.result.value)
             THEN [sent |-> fcu.sent, response |-> Ok(fcu.result.value)]
             ELSE [sent |-> fcu.sent, response |-> err]
    ELSE LET fcu == fork_choice_updated(answer, state, payload_attrs)
         IN  [sent |-> fcu.sent, response |-> fcu.result]

\* the forkchoice states, the payload attributes and the consensus engine's
\* answers: a failed call, or a forkchoice result of any status
ForkchoiceStates == {"head_a", "head_b"}
PayloadAttrs == {None} \cup {Some([well_formed |-> w]) : w \in BOOLEAN}
Answers ==
    {Err("beacon")} \cup {Ok([status |-> st]) : st \in {"VALID", "INVALID", "SYNCING"}}

ForkchoiceUpdated ==
    /\ Len(engine.sent) < MaxRequests
    /\ \E answer \in Answers, state \in ForkchoiceStates, payload_attrs \in PayloadAttrs :
         LET r == validate_and_execute_forkchoice(answer, state, payload_attrs)
         IN  engine' = [sent |-> engine.sent \o r.sent,
                        request |-> [kind |-> "forkchoice", state |-> state,
                                     payload_attrs |-> payload_attrs, answer |-> answer],
                        delivered |-> r.sent,
                        response |-> r.response]
    /\ UNCHANGED <<pool, outcome, calls, iterator_vars>>

\* an engine API and a consensus engine, before the first update
InitForkchoice ==
    /\ pool = new_pool(PoolConfig(0, 0, 0, 0), [s \in Senders |-> 0],
                       [s \in Senders |-> 0], 0, 0)
    /\ outcome = <<>>
    /\ no_calls
    /\ no_iterator
    /\ not_prioritized
    /\ engine = [sent |-> <<>>, request |-> [kind |-> "none"], delivered |-> <<>>,
                 response |-> Ok(<<>>)]

NextForkchoice == ForkchoiceUpdated

SpecForkchoice == InitForkchoice /\ [][NextForkchoice]_vars

\* add_transaction futures of several callers, suspended in the validation,
\* cancelled, and resumed in any order
InitAsync ==
    /\ pool = new_pool(Roomy, [s \in Senders |-> 0],
                       [s \in Senders |-> MaxBalance], 1, 1)
    /\ outcome = <<>>
    /\ calls = [c \in Callers |-> Idle]
    /\ no_engine
    /\ no_iterator
    /\ not_prioritized

CallEqual == Call(ChainSenders, EqualVariants)

NextAsync == CallEqual \/ Validated \/ Cancel \/ Resume

SpecAsync == InitAsync /\ [][NextAsync]_vars

\* ------------------------------------------------------------------ claims
YieldedSet == {yielded[k] : k \in DOMAIN yielded}

\* a step in which the outermost iterator returned a transaction
Yields == yielded' # yielded

JustYielded == yielded'[Len(yielded')]

\* C1 (as stated): the priorities of the yielded transactions are
\* non-increasing: no yielded transaction has a priority greater than that of a
\* transaction yielded before it.
C1_PrioritiesNonIncreasing ==
    \A i, j \in DOMAIN yielded :
        i < j => yielded[j].priority <= yielded[i].priority

\* C1 (amended): a yielded transaction has a greater priority than the
\* transaction yielded immediately before it only when it is that
\* transaction's direct descendant (same sender, nonce + 1).
C1_PriorityRisesOnlyByUnlock ==
    \A k \in DOMAIN yielded :
        (k > 1 /\ yielded[k].priority > yielded[k - 1].priority)
            => id(yielded[k]) = unlocks(yielded[k - 1])

C1_Witness ==
    \E k \in DOMAIN yielded :
        /\ k > 1
        /\ yielded[k].priority > yielded[k - 1].priority
        /\ yielded[k] \notin snapshot

\* C2: over a gapless snapshot, with no live updates, no mark_invalid and
\* skip_blobs off, next() yields every snapshot transaction exactly once and
\* returns None only when none is left, each sender's transactions in
\* ascending nonce order (a single sender's nonces as 0, 1, ..., N-1).
C2_SnapshotYieldedInNonceOrder ==
    /\ \A i, j \in DOMAIN yielded : i # j => yielded[i] # yielded[j]
    /\ YieldedSet \cup held(best.all) = snapshot
    /\ YieldedSet \cap held(best.all) = {}
    /\ best.independent = {} => held(best.all) = {}
    /\ \A i, j \in DOMAIN yielded :
          (i < j /\ yielded[i].sender = yielded[j].sender)
              => yielded[i].nonce < yielded[j].nonce
    /\ (\A t \in snapshot : t.sender = 1)
          => \A k \in DOMAIN yielded : yielded[k].nonce = k - 1

C2_Witness ==
    /\ Len(yielded) = MaxNonce + 1
    /\ \A t \in snapshot : t.sender = 1
    /\ best.independent = {}

\* C3: after mark_invalid(t) no later next() yields a transaction of t's
\* sender, whether it was in the snapshot, in `independent` or arrives over
\* the channel; other senders are unaffected: when next() has nothing left
\* to yield, every transaction still held belongs to a marked sender.
C3_MarkedSenderNeverYielded ==
    /\ [][Yields => JustYielded.sender \notin marked]_vars
    /\ [](best.independent = {} => \A t \in held(best.all) : t.sender \in marked)

C3_Witness ==
    /\ Len(yielded) > 0
    /\ best.independent = {}
    /\ \E t \in held(best.all) \cap snapshot : t.sender \in marked
    /\ \E t \in held(best.all) \ snapshot : t.sender \in marked

\* C4: while skip_blobs is set next() yields no blob transaction; once a blob
\* transaction of a sender was skipped no transaction of that sender with a
\* higher nonce is yielded; the transactions of the other senders are still
\* yielded; with skip_blobs unset no blob transaction is skipped.
C4_SkipBlobs ==
    /\ [][Yields => /\ best.skip_blobs => ~JustYielded.is_eip4844
                    /\ \A b \in skipped' :
                          ~(b.sender = JustYielded.sender /\ JustYielded.nonce > b.nonce)]_vars
    /\ [][~best.skip_blobs => skipped' = skipped]_vars
    /\ [](best.independent = {}
            => \A t \in held(best.all) :
                 t.sender \in marked \cup {b.sender : b \in skipped})

C4_Witness ==
    /\ best.independent = {}
    /\ marked = {}
    /\ \E k \in DOMAIN yielded : ~yielded[k].is_eip4844
    /\ \E b \in skipped : \E t \in held(best.all) :
          t.sender = b.sender /\ t.nonce = b.nonce + 1 /\ ~t.is_eip4844

\* C5: a transaction received over the channel with a priority above the
\* priority yielded last is never inserted into `all` or `independent` and
\* is never yielded.
C5_SuppressedNeverHeld ==
    \A t \in suppressed :
        /\ t \notin held(best.all)
        /\ t \notin best.independent
        /\ t \notin YieldedSet

C5_Witness ==
    /\ suppressed # {}
    /\ chan.queue = <<>>
    /\ best.independent = {}
    /\ Len(yielded) > 1

\* a step that received exactly one message and popped nothing
ReceivedOne ==
    /\ ~chan.lagged
    /\ Len(chan.queue) = Len(chan'.queue) + 1
    /\ yielded' = yielded
    /\ best.independent \subseteq best'.independent

\* C6: a transaction (s, n) accepted from the channel is inserted into `all`,
\* and into `independent` iff `all` does not hold (s, n-1) at that moment; with
\* the ancestor held, |all| grows by one and `independent` is unchanged.
C6_InsertedIndependentIffNoAncestor ==
    [][(ReceivedOne /\ (best.last_priority = None
                         \/ Head(chan.queue).priority <= best.last_priority[1]))
        => LET m == Head(chan.queue)
               has_ancestor == m.nonce > 0 /\ best.all[<<m.sender, m.nonce - 1>>] # None
           IN  /\ best'.all[id(m)] = Some(m)
               /\ \A i \in TxIds \ {id(m)} : best'.all[i] = best.all[i]
               /\ m \in best'.independent <=> ~has_ancestor
               /\ best'.independent \ {m} = best.independent
               /\ (has_ancestor /\ best.all[id(m)] = None)
                     => /\ Cardinality(held(best'.all)) = Cardinality(held(best.all)) + 1
                        /\ best'.independent = best.independent]_vars

C6_Witness ==
    /\ yielded = <<>>
    /\ \E t \in held(best.all) \ snapshot :
          /\ t \notin best.independent
          /\ t.nonce > 0
          /\ best.all[<<t.sender, t.nonce - 1>>] # None
    /\ \E t \in held(best.all) \ snapshot : t \in best.independent

\* C7: after no_updates() the iterator holds no receiver and no
\* last_priority, and every later next() yields only transactions that were
\* in `all` when no_updates() was called.
C7_NoUpdatesFreezes ==
    frozen # None
        => /\ ~best.new_transaction_receiver
           /\ best.last_priority = None
           /\ frozen[1].stray = {}

\* C8: every transaction BestTransactionsWithFees returns satisfies
\* max_fee_per_gas >= base_fee and, when it has one, max_fee_per_blob_gas >=
\* blob_fee; a transaction without a blob fee is never rejected on account of
\* blob_fee.
C8_ReturnedSatisfyFees ==
    /\ \A t \in YieldedSet :
          /\ t.max_fee_per_gas >= base_fee
          /\ t.max_fee_per_blob_gas # None
                => t.max_fee_per_blob_gas[1] >= base_fee_per_blob_gas
    /\ \A t \in discarded :
          t.max_fee_per_blob_gas = None => t.max_fee_per_gas < base_fee

C8_Witness ==
    /\ base_fee_per_blob_gas = MaxFee
    /\ best.independent = {}
    /\ \E t \in YieldedSet : t.max_fee_per_blob_gas = None
    /\ \E t \in YieldedSet :
          t.max_fee_per_blob_gas # None /\ t.max_fee_per_gas = base_fee
    /\ \E t \in discarded : t.max_fee_per_blob_gas # None

\* the fee conditions of the claims
Underpriced(t) ==
    \/ t.max_fee_per_gas < base_fee
    \/ t.max_fee_per_blob_gas # None /\ t.max_fee_per_blob_gas[1] < base_fee_per_blob_gas

\* C9: once BestTransactionsWithFees discarded a transaction of a sender for
\* violating a fee, no transaction of that sender with a higher nonce is
\* returned, even one that satisfies both fees; if every chain head violates
\* a fee nothing is returned.
C9_DescendantsOfUnderpricedSkipped ==
    /\ [][Yields => \A d \in discarded' :
                       ~(d.sender = JustYielded.sender /\ JustYielded.nonce > d.nonce)]_vars
    /\ []((\A t \in snapshot : t.nonce = 0 => Underpriced(t)) => yielded = <<>>)

C9_Witness ==
    /\ best.independent = {}
    /\ marked = {}
    /\ Len(yielded) > 0
    /\ \E d \in discarded : \E t \in snapshot \ YieldedSet :
          t.sender = d.sender /\ t.nonce > d.nonce /\ ~Underpriced(t)

\* C10: every transaction BestTransactionFilter returns satisfies the
\* predicate, and once a transaction of a sender failed it the sender is
\* marked invalid in the inner iterator and none of its transactions is
\* returned later (one sender, predicate "nonce is even": only nonce 0).
C10_FilterReturnsMatchingOnly ==
    /\ [](\A t \in YieldedSet : holds(predicate, t))
    /\ [](\A d \in discarded : d.sender \in best.invalid)
    /\ [][Yields => \A d \in discarded' : d.sender # JustYielded.sender]_vars
    /\ []((/\ predicate = "even_nonce"
            /\ marked = {}
            /\ snapshot # {}
            /\ \A t \in snapshot : t.sender = 1
            /\ best.independent = {})
           => Len(yielded) = 1 /\ yielded[1].nonce = 0)

C10_Witness ==
    /\ predicate = "even_nonce"
    /\ marked = {}
    /\ best.independent = {}
    /\ Len(yielded) = 1
    /\ \E d \in discarded : d.nonce = 1
    /\ \E t \in snapshot \ YieldedSet :
          t.nonce = 2 /\ t.sender = yielded[1].sender

\* the transactions returned on the prioritized path, and the others
PrioritizedPath == {k \in DOMAIN yielded : path[k] = "prioritized"}

OtherPaths == DOMAIN yielded \ PrioritizedPath

RECURSIVE SumGas(_, _)
SumGas(seq, ks) ==
    IF ks = {} THEN 0
    ELSE LET k == CHOOSE j \in ks : TRUE
         IN  seq[k].gas_limit + SumGas(seq, ks \ {k})

\* C11: the gas limits of the transactions returned on the prioritized path
\* sum to at most max_prioritized_gas; a transaction is returned on that path
\* only if its sender is prioritized and prioritized_gas + gas_limit <=
\* max_prioritized_gas held; a transaction of a prioritized sender that did
\* not fit is buffered and returned later like any other.
C11_PrioritizedGasCapped ==
    /\ [](SumGas(yielded, PrioritizedPath) <= wrapper.max_prioritized_gas)
    /\ [](SumGas(yielded, PrioritizedPath) = wrapper.prioritized_gas)
    /\ [][(Yields /\ path'[Len(path')] = "prioritized")
            => /\ JustYielded.sender \in wrapper.prioritized_senders
               /\ wrapper.prioritized_gas + JustYielded.gas_limit
                     <= wrapper.max_prioritized_gas]_vars
    /\ [](\A k \in OtherPaths :
            yielded[k].sender \in wrapper.prioritized_senders
                => wrapper.prioritized_gas + yielded[k].gas_limit
                      > wrapper.max_prioritized_gas)
    /\ [](\A k \in DOMAIN produced :
            \/ produced[k] \in YieldedSet
            \/ \E j \in DOMAIN wrapper.buffer : wrapper.buffer[j] = produced[k])

C11_Witness ==
    /\ PrioritizedPath # {}
    /\ wrapper.prioritized_gas < wrapper.max_prioritized_gas
    /\ \E k \in OtherPaths :
          /\ yielded[k].sender \in wrapper.prioritized_senders
          /\ path[k] = "buffer"
    /\ \E k \in OtherPaths : yielded[k].sender \notin wrapper.prioritized_senders

\* the subsequence of `seq` at the indices `ks`
RECURSIVE SubSeqAt(_, _)
SubSeqAt(seq, ks) ==
    IF ks = {} THEN <<>>
    ELSE LET k == CHOOSE j \in ks : \A i \in ks : i <= j
         IN  Append(SubSeqAt(seq, ks \ {k}), seq[k])

\* C12: with set_skip_blobs never called the wrapper returns every
\* transaction its inner iterator produced exactly once: what was produced is
\* what was returned plus what the buffer holds, the buffer is empty when the
\* wrapper returns None, and the transactions not returned on the
\* prioritized path come in the order in which the inner iterator produced
\* them.
C12_AllProducedReturnedInOrder ==
    /\ [](Len(produced) = Len(yielded) + Len(wrapper.buffer))
    /\ [](\A i, j \in DOMAIN yielded : i # j => yielded[i] # yielded[j])
    /\ [](SubSeqAt(yielded, OtherPaths) \o wrapper.buffer
            = SelectSeq(produced,
                        LAMBDA t : \A k \in PrioritizedPath : yielded[k] # t))
    /\ [][(marked' = marked /\ yielded' = yielded) => wrapper'.buffer = <<>>]_vars

C12_Witness ==
    /\ Len(yielded) = MaxStatic
    /\ path[1] = "prioritized"
    /\ path[2] = "buffer"
    /\ path[3] = "buffer"
    /\ yielded[1].priority < yielded[2].priority
    /\ yielded[1].sender # yielded[2].sender

\* the messages add_new_transactions() takes from the queue `q` and inserts:
\* those ahead of the first one above the priority yielded last
Accepted(self, q) ==
    LET above(k) == self.last_priority # None
                       /\ q[k].priority > self.last_priority[1]
    IN  {k \in DOMAIN q : \A j \in 1..k : ~above(j)}

\* C13: a next() call that finds the receiver lagged clears the lag and goes
\* on reading within the same call: every message left in the channel ahead
\* of the first one above the priority yielded last is taken and inserted
\* into `all` (the latest one for its id), that first one is dropped, and the
\* call yields the best transaction held, returning None only when
\* `independent` is left empty.
C13_LaggedDoesNotEndIteration ==
    [][(chan.lagged /\ best.new_transaction_receiver
            /\ submission_id' = submission_id)
        => LET q == chan.queue
               acc == Accepted(best, q)
               taken == IF acc = DOMAIN q THEN Len(q) ELSE Cardinality(acc) + 1
               added == add_new_transactions(best, chan)
           IN  /\ ~chan'.lagged
               /\ chan'.queue = SubSeq(q, taken + 1, Len(q))
               /\ \A k \in acc :
                     (\A j \in acc : j > k => id(q[j]) # id(q[k]))
                         => added.self.all[id(q[k])] = Some(q[k])
               /\ \A k \in DOMAIN q \ acc : k = taken => q[k] \in suppressed'
               /\ ~Yields => best'.independent = {}
               /\ Yields => (\A t \in best.independent : ~tx_less(JustYielded, t))]_vars

C13_Witness ==
    /\ ~chan.lagged
    /\ chan.queue = <<>>
    /\ submission_id = FirstLiveId + MaxSends
    /\ Len(yielded) = 1
    /\ yielded[1] \notin snapshot
    /\ yielded[1].submission_id = FirstLiveId + 1
    /\ best.independent # {}

\* the nonces a sender holds, and those it holds outside Queued
HeldNonces(s) == {t.nonce : t \in of_sender(pool, s)}

Tag(t) == pool.txs[id(t)][1].subpool

ReadyNonces(s) == {t.nonce : t \in {u \in of_sender(pool, s) : Tag(u) # "Queued"}}

\* C14 (as stated): for each sender the sorted nonces of the held
\* transactions, across all four subpools, increase in steps of exactly 1.
C14_NoNonceGap ==
    \A s \in Senders : \A n, m \in HeldNonces(s) :
        \A k \in n..m : k \in HeldNonces(s)

\* C14 (amended): for each sender the nonces of the held transactions that
\* are not tagged Queued increase in steps of exactly 1 from the on-chain
\* nonce; a transaction above a nonce gap is held too, tagged Queued.
C14_ReadyNoncesContiguous ==
    \A s \in Senders :
        /\ \A n \in ReadyNonces(s) :
              \A k \in pool.state_nonce[s]..n : k \in ReadyNonces(s)
        /\ \A n \in ReadyNonces(s) : n >= pool.state_nonce[s]
        /\ \A t \in of_sender(pool, s) :
              (\E k \in pool.state_nonce[s]..t.nonce : k \notin HeldNonces(s))
                  => Tag(t) = "Queued"

C14_Witness ==
    /\ HeldNonces(1) = {0, 2}
    /\ ReadyNonces(1) = {0}
    /\ pool.state_nonce[1] = 0

\* what best_transactions() yields in the current pool state
BestYield == collect(best_transactions(pool))

\* a held transaction with a missing lower nonce
Gapped(t) ==
    \E k \in pool.state_nonce[t.sender]..t.nonce : k \notin HeldNonces(t.sender)

\* the balance and fee conditions of a held transaction
Affordable(t) ==
    /\ cumulative_cost(pool, t) <= pool.balance[t.sender]
    /\ t.max_fee_per_gas >= pool.base_fee
    /\ t.max_fee_per_blob_gas = None \/ t.max_fee_per_blob_gas[1] >= pool.blob_fee

\* C15: a held transaction with a missing lower nonce is tagged Queued and
\* best_transactions() does not yield it; a transaction with no missing
\* lower nonce is Pending when it and its predecessors satisfy the balance
\* and fee conditions, so filling the gap promotes the filler and its
\* contiguous successors; best_transactions() yields exactly the Pending
\* transactions, each sender's in ascending nonce order (nonces 0 and 2
\* held: only 0; after adding 1: 0, 1, 2).
C15_GapQueuedThenPromoted ==
    /\ \A t \in UNION {of_sender(pool, s) : s \in Senders} :
          /\ Gapped(t) => (Tag(t) = "Queued"
                            /\ \A k \in DOMAIN BestYield : BestYield[k] # t)
          /\ (/\ ~Gapped(t)
               /\ t.nonce >= pool.state_nonce[t.sender]
               /\ \A u \in of_sender(pool, t.sender) :
                     (u.nonce >= pool.state_nonce[t.sender] /\ u.nonce <= t.nonce)
                        => Affordable(u))
                => Tag(t) = "Pending"
    /\ {BestYield[k] : k \in DOMAIN BestYield} = subpool(pool, "Pending")
    /\ Len(BestYield) = Cardinality(subpool(pool, "Pending"))
    /\ \A i, j \in DOMAIN BestYield :
          (i < j /\ BestYield[i].sender = BestYield[j].sender)
              => BestYield[i].nonce < BestYield[j].nonce
    /\ (HeldNonces(1) = {0, 2} /\ pool.state_nonce[1] = 0
            /\ Affordable(pool.txs[<<1, 0>>][1].transaction))
          => (Len(BestYield) = 1 /\ BestYield[1].nonce = 0)

C15_Witness ==
    /\ HeldNonces(1) = {0, 1, 2}
    /\ pool.state_nonce[1] = 0
    /\ pool.txs[<<1, 1>>][1].transaction.submission_id
          > pool.txs[<<1, 2>>][1].transaction.submission_id
    /\ Len(BestYield) = 3
    /\ \A k \in 1..3 : BestYield[k].nonce = k - 1

Eligible(p, t) ==
    /\ p.txs[id(t)] # None
    /\ p.txs[id(t)][1].transaction = t
    /\ \/ t.nonce = p.state_nonce[t.sender]
       \/ /\ t.nonce > p.state_nonce[t.sender]
          /\ p.txs[<<t.sender, t.nonce - 1>>] # None
          /\ p.txs[<<t.sender, t.nonce - 1>>][1].subpool = "Pending"
    /\ cumulative_cost(p, t) <= p.balance[t.sender]

LastCall == outcome'[Len(outcome')]

\* every fee field present on both transactions is at least the incumbent's
\* raised by the bump, the blob bump for blob transactions
FeesBumped(incumbent, challenger) ==
    LET pct == IF challenger.is_eip4844 THEN pool.config.price_bump.blob
               ELSE pool.config.price_bump.default
        raised(x, y) == y * 100 >= x * (100 + pct)
    IN  /\ raised(incumbent.max_fee_per_gas, challenger.max_fee_per_gas)
        /\ raised(incumbent.max_priority_fee_per_gas, challenger.max_priority_fee_per_gas)
        /\ (incumbent.max_fee_per_blob_gas # None /\ challenger.max_fee_per_blob_gas # None)
              => raised(incumbent.max_fee_per_blob_gas[1], challenger.max_fee_per_blob_gas[1])

\* C18: a challenger submitted at a held (sender, nonce) replaces the
\* incumbent if and only if every fee field present on both satisfies
\* new >= old * (1 + bump), the blob bump for blob transactions; otherwise
\* add_transaction fails with ReplacementUnderpriced and the pool is
\* unchanged; on success the incumbent is no longer retrievable by hash and
\* the challenger is.
C18_ReplacementIffBumped ==
    [][(outcome' # outcome /\ pool.txs[id(LastCall.tx)] # None
            /\ by_hash(pool, hash(LastCall.tx)) = {})
        => LET old == pool.txs[id(LastCall.tx)][1].transaction
               new_ == LastCall.tx
           IN  IF FeesBumped(old, new_)
               THEN /\ LastCall.result = "Added"
                    /\ by_hash(pool', hash(old)) = {}
                    /\ by_hash(pool', hash(new_)) # {}
                    /\ hash(pool'.txs[id(new_)][1].transaction) = hash(new_)
               ELSE /\ LastCall.result = "ReplacementUnderpriced"
                    /\ pool' = pool]_vars

\* 100 was held, 109 was rejected and 110 replaced it
C18_Witness ==
    /\ Len(outcome) = MaxSubmissions
    /\ \E i \in 1..(Len(outcome) - 2) :
          /\ outcome[i].tx.sender = 1
          /\ outcome[i].tx.max_fee_per_gas = 100
          /\ outcome[i].result = "Added"
          /\ outcome[i + 1].tx.nonce = outcome[i].tx.nonce
          /\ outcome[i + 1].tx.sender = 1
          /\ outcome[i + 1].tx.max_fee_per_gas = 109
          /\ outcome[i + 1].tx.max_priority_fee_per_gas = 11
          /\ outcome[i + 1].result = "ReplacementUnderpriced"
          /\ outcome[i + 2].tx.nonce = outcome[i].tx.nonce
          /\ outcome[i + 2].tx.sender = 1
          /\ outcome[i + 2].tx.max_fee_per_gas = 110
          /\ outcome[i + 2].result = "Added"
          /\ by_hash(pool, hash(outcome[i].tx)) = {}
          /\ by_hash(pool, hash(outcome[i + 2].tx)) # {}

Count(tag) == Cardinality(subpool(pool, tag))

Bytes(tag) == SumOf([t \in subpool(pool, tag) |-> t.encoded_size], subpool(pool, tag))

AscendingChain ==
    /\ Len(outcome) = MaxNonce + 1
    /\ \A i \in 1..Len(outcome) :
          outcome[i].tx.sender = 1 /\ outcome[i].tx.nonce = i - 1

PendingLimit == pool.config.limit["Pending"].count

PendingNonces(s) == {t.nonce : t \in {u \in subpool(pool, "Pending") : u.sender = s}}

\* a step removes a held transaction and keeps a higher nonce of its sender
LeavesDescendant ==
    \E i \in TxIds, j \in TxIds :
        /\ pool.txs[i] # None /\ pool'.txs[i] = None
        /\ j[1] = i[1] /\ j[2] > i[2]
        /\ pool.txs[j] # None /\ pool'.txs[j] # None

\* eviction never leaves a nonce gap below a Pending transaction
NoGapBelowPending ==
    \A t \in subpool(pool, "Pending") :
        \A n \in pool.state_nonce[t.sender]..t.nonce : n \in PendingNonces(t.sender)

\* C20 as stated: with the Pending count limit L, inserting nonces 0..N of
\* one sender in ascending order leaves exactly nonces 0..L-1 in Pending and
\* every nonce from L on evicted, that is, not held.
C20_HigherNoncesEvicted ==
    AscendingChain =>
        /\ PendingNonces(1) = 0..(PendingLimit - 1)
        /\ HeldNonces(1) = 0..(PendingLimit - 1)

\* C20, amended: with the Pending count limit L, inserting nonces 0..N of
\* one sender in ascending order leaves exactly nonces 0..L-1 in Pending; the
\* insertion of nonce L fails with DiscardedOnInsert and the nonces above L
\* are then held as Queued behind the gap. Whenever a step removes a held
\* transaction it removes the held higher nonces of its sender too, and no
\* state has a nonce gap below a Pending transaction.
C20_EvictionCascade ==
    /\ [](AscendingChain =>
            /\ PendingNonces(1) = 0..(PendingLimit - 1)
            /\ outcome[PendingLimit + 1].result = "DiscardedOnInsert"
            /\ \A i \in 1..Len(outcome) :
                  i # PendingLimit + 1 => outcome[i].result = "Added"
            /\ HeldNonces(1) = (0..MaxNonce) \ {PendingLimit}
            /\ \A t \in of_sender(pool, 1) :
                  t.nonce > PendingLimit => Tag(t) = "Queued")
    /\ []NoGapBelowPending
    /\ [][~LeavesDescendant]_vars

\* the ascending chain was inserted, and a nonce above the limit is held
C20_Witness ==
    /\ AscendingChain
    /\ PendingNonces(1) = 0..(PendingLimit - 1)
    /\ \E n \in HeldNonces(1) : n > PendingLimit

\* C21: after any sequence of add_transaction calls each hash is held at
\* most once and each (sender, nonce) holds at most one transaction, which
\* is the one found under its hash; submitting a transaction whose hash is
\* held leaves the pool as it was: the same transactions, tags and
\* submission_id counter.
C21_NoDuplicateHash ==
    /\ [](\A e \in entries(pool) :
            /\ by_hash(pool, hash(e.transaction)) = {e}
            /\ pool.txs[id(e.transaction)] = Some(e)
            /\ \A f \in entries(pool) :
                  id(f.transaction) = id(e.transaction) => f = e)
    /\ [][(outcome' # outcome /\ by_hash(pool, hash(LastCall.tx)) # {})
            => (pool' = pool /\ LastCall.result = "AlreadyKnown")]_vars

\* a held transaction was submitted again where no price bump is required
C21_Witness ==
    /\ pool.config = NoBump
    /\ \E i \in 1..Len(outcome) :
          /\ outcome[i].result = "AlreadyKnown"
          /\ by_hash(pool, hash(outcome[i].tx)) # {}
          /\ pool.submission_id < Len(outcome)

\* the blob store of p holds the sidecars of exactly the held blob
\* transactions
BlobDuality(p) ==
    p.blob_store = {hash(e.transaction) :
                       e \in {x \in entries(p) : x.transaction.is_eip4844}}

\* the result of a canonical update of the pool that reports `mined`
AfterMined(mined, blob_fee) ==
    on_canonical_state_change(pool, [base_fee |-> pool.base_fee, blob_fee |-> blob_fee,
                                     mined |-> mined, changed_accounts |-> <<>>])

\* C22: after on_canonical_state_change reports a transaction as mined it
\* is held in no subpool and its sidecar is not in the blob store, and the
\* transactions of the sender that remain are held as they were, in the same
\* order of nonces and submissions; in every state a blob transaction's
\* sidecar is in the blob store exactly when the transaction is held.
C22_MinedGoneWithSidecar ==
    /\ BlobDuality(pool)
    /\ \A mined \in SUBSET {hash(e.transaction) : e \in entries(pool)},
          blob_fee \in BaseFees :
          LET q == AfterMined(mined, blob_fee)
          IN  /\ \A h \in mined : by_hash(q, h) = {} /\ h \notin q.blob_store
              /\ \A s \in Senders : of_sender(q, s) \subseteq of_sender(pool, s)
              /\ BlobDuality(q)

\* nonce 0 was mined and the blob transaction above it is held, and its
\* sidecar is the only one stored
C22_Witness ==
    /\ pool.state_nonce[1] = 1
    /\ pool.submission_id >= 2
    /\ \E t \in of_sender(pool, 1) :
          /\ t.is_eip4844
          /\ t.nonce = 1
          /\ pool.blob_store = {hash(t)}

\* the inputs of Pool::add_transactions and Pool::add_transaction
BatchTxs == {ValidTx(s, n, v) : s \in ChainSenders, n \in Nonces, v \in ChainVariants}

Batches == UNION {[1..k -> BatchTxs] : k \in 0..MaxBatch}

\* C23: Pool::add_transactions returns exactly one result per submitted
\* transaction, result i being that of input i, and for an empty input an
\* empty vector, the validator not invoked and the pool untouched;
\* Pool::add_transaction returns the one result of its transaction and the
\* expectation on the length of the results never fails.
C23_OneResultPerInput ==
    /\ \A txs \in Batches :
          LET r == pool_add_transactions(pool, txs)
          IN  /\ Len(r.results) = Len(txs)
              /\ \A i \in 1..Len(txs) : r.results[i].hash = hash(txs[i])
              /\ txs = <<>> =>
                    (r.results = <<>> /\ r.validated = <<>> /\ r.pool = pool)
    /\ \A tx \in BatchTxs :
          LET r == pool_add_transaction(pool, tx)
          IN  /\ r.outcome # "panic"
              /\ r.outcome = pool_add_transactions(pool, <<tx>>).results[1].outcome
              /\ r.pool = pool_add_transactions(pool, <<tx>>).pool

\* a batch of two was added, with two different results
C23_Witness ==
    \E i \in 1..(Len(outcome) - 1) :
        /\ outcome[i].index = 1
        /\ outcome[i + 1].index = 2
        /\ outcome[i].tx # outcome[i + 1].tx
        /\ outcome[i].result = "Added"
        /\ outcome[i + 1].result # "Added"

\* C24: the pool changes only when a future resumes after its validation:
\* a call suspended in the validation and a call cancelled there leave the
\* held transactions, tags, blob store and submission_id counter as they
\* were; the resumed calls mutate the pool one at a time, so a transaction
\* submitted by interleaving calls is held exactly once, the later call
\* finding it known.
C24_ValidationOutsideMutation ==
    /\ [][pool' # pool =>
            \E c \in Callers :
                /\ calls[c].pc = "validated"
                /\ calls'[c] = Idle
                /\ Len(outcome') = Len(outcome) + 1]_vars
    /\ [][\A c \in Callers :
            (calls[c] # Idle /\ calls'[c] = Idle /\ outcome' = outcome)
                => pool' = pool]_vars
    /\ [](\A i \in DOMAIN outcome :
            outcome[i].result = "Added" =>
                /\ Cardinality(by_hash(pool, hash(outcome[i].tx))) = 1
                /\ \A j \in DOMAIN outcome :
                      (j > i /\ outcome[j].tx = outcome[i].tx)
                          => outcome[j].result = "AlreadyKnown")
    /\ [](pool.submission_id =
            Cardinality({i \in DOMAIN outcome : outcome[i].result = "Added"}))

\* two callers' futures for one transaction were in flight together and
\* both resumed
C24_Witness ==
    \E i \in DOMAIN outcome, j \in DOMAIN outcome :
        /\ i < j
        /\ outcome[i].tx = outcome[j].tx
        /\ outcome[i].caller # outcome[j].caller
        /\ outcome[i].overlapped
        /\ outcome[i].result = "Added"
        /\ outcome[j].result = "AlreadyKnown"
        /\ Cardinality(by_hash(pool, hash(outcome[i].tx))) = 1

\* C25: a range request for more than 1024 bodies fails with
\* PayloadRequestTooLarge, whatever its start; a request for at most 1024
\* bodies that starts at 0 or asks for 0 bodies fails with
\* InvalidBodiesRange; neither reads a block from the provider.
C25_RangeRequestRejected ==
    engine.request.kind = "range" =>
        /\ engine.request.count > 1024 =>
              /\ engine.response = Err("PayloadRequestTooLarge")
              /\ engine.reads = <<>>
        /\ (engine.request.count <= 1024
              /\ (engine.request.start = 0 \/ engine.request.count = 0)) =>
              /\ engine.response = Err("InvalidBodiesRange")
              /\ engine.reads = <<>>

\* a request from block 0 for 1025 bodies was answered, over a provider
\* that holds blocks
C25_Witness ==
    /\ engine.request = [kind |-> "range", start |-> 0, count |-> 1025]
    /\ engine.response = Err("PayloadRequestTooLarge")
    /\ engine.provider.best_block_number = Ok(MaxBlock)
    /\ \A n \in 1..MaxBlock : engine.provider.blocks[n] = "present"

\* the provider holds a block of the number
HoldsBlock(n) == n \in 1..MaxBlock /\ engine.provider.blocks[n] = "present"

\* the provider fails to read the block of the number
FailsBlock(n) == n \in 1..MaxBlock /\ engine.provider.blocks[n] = "error"

\* the entry of a block number in a response
Entry(n) == IF HoldsBlock(n) THEN <<[transactions |-> <<n>>]>> ELSE <<>>

\* the request is a range request that passes both checks
ValidRange ==
    /\ engine.request.kind = "range"
    /\ engine.request.count <= 1024
    /\ engine.request.start >= 1
    /\ engine.request.count >= 1

\* the last block number of the requested range, within the number's width
RangeEnd ==
    IF engine.request.start + engine.request.count - 1 > 2 ^ U64Bits - 1
    THEN 2 ^ U64Bits - 1
    ELSE engine.request.start + engine.request.count - 1

\* the response is the list of the entries of lo..hi, ascending
EntriesOf(lo, hi) ==
    /\ engine.response.ok
    /\ Len(engine.response.value) = (IF hi < lo THEN 0 ELSE hi - lo + 1)
    /\ \A i \in DOMAIN engine.response.value :
          engine.response.value[i] = Entry(lo + i - 1)

\* the response is the list of the entries of the requested hashes
EntriesOfHashes ==
    /\ engine.response.ok
    /\ Len(engine.response.value) = Len(engine.request.hashes)
    /\ \A i \in DOMAIN engine.response.value :
          engine.response.value[i] = Entry(engine.request.hashes[i][2])

MalformedAttrs ==
    /\ engine.request.kind = "forkchoice"
    /\ engine.request.payload_attrs # <<>>
    /\ ~engine.request.payload_attrs[1].well_formed

\* the update carried no attributes or attributes that pass the validation
ForwardableAttrs ==
    /\ engine.request.kind = "forkchoice"
    /\ (engine.request.payload_attrs = <<>> \/ engine.request.payload_attrs[1].well_formed)

\* the consensus engine's answer is a forkchoice result of invalid status
InvalidResult == engine.request.answer.ok /\ engine.request.answer.value.status = "INVALID"

\* the consensus engine received the state once, with the attributes
SentOnceWith(payload_attrs) ==
    engine.delivered = <<[state |-> engine.request.state, payload_attrs |-> payload_attrs]>>

ReadInStep == {chan.queue[k] : k \in 1..(Len(chan.queue) - Len(chan'.queue))}

NextCalled ==
    \/ Len(chan'.queue) < Len(chan.queue)
    \/ Len(yielded') > Len(yielded)

\* C29: a next() call of an iterator that holds its receiver reads every
\* message that is in the channel when the call starts and whose priority
\* is not above the priority yielded last, also behind a message of a
\* higher priority; add_new_transactions inserts into `all` what it reads.
C29_NextDrainsChannel ==
    [][(NextCalled /\ best.new_transaction_receiver) =>
          \A k \in DOMAIN chan.queue :
              (best.last_priority = None \/ chan.queue[k].priority <= best.last_priority[1])
                  => k <= Len(chan.queue) - Len(chan'.queue)]_vars

\* C30 as stated: next() returns the greatest element that `independent`
\* holds once the channel is read: the highest priority, and of equal
\* priorities the lowest submission_id.
C30_ReturnsGreatestIndependent ==
    [][Yields =>
          JustYielded = last(add_new_transactions(best, chan).self.independent)]_vars

\* C30: next() pops the greatest element of `independent` (the highest
\* priority, of equal priorities the lowest submission_id) until the popped
\* transaction is neither of a marked sender nor a skipped blob
\* transaction, and returns that one: it is greater than every element left
\* in `independent` except its own direct descendant, it is removed from
\* `independent` and from `all`, and its direct descendant, if `all` holds
\* it, is in `independent`.
C30_ReturnsGreatestPopped ==
    [][Yields =>
          /\ \A x \in best'.independent :
                tx_less(x, JustYielded) \/ id(x) = unlocks(JustYielded)
          /\ JustYielded \notin best'.independent
          /\ best'.all[id(JustYielded)] = None
          /\ \A i \in DOMAIN best'.all :
                (i = unlocks(JustYielded) /\ best'.all[i] # None)
                    => best'.all[i][1] \in best'.independent]_vars

\* the transaction yielded last won a tie of priorities by its earlier
\* submission, and its direct descendant was promoted
C30_Witness ==
    /\ yielded # <<>>
    /\ \E x \in best.independent :
          /\ x.priority = yielded[Len(yielded)].priority
          /\ x.submission_id > yielded[Len(yielded)].submission_id
          /\ x.sender # yielded[Len(yielded)].sender
    /\ \E d \in best.independent :
          /\ id(d) = unlocks(yielded[Len(yielded)])
          /\ best.all[id(d)] = Some(d)
    /\ best.all[id(yielded[Len(yielded)])] = None

\* C31: a transaction (s, n) is yielded only after the transaction
\* (s, n-1) that was delivered to the iterator before it, in the snapshot or
\* as a live update that was suppressed for its priority, has been yielded.
C31_YieldedAfterAncestor ==
    \A k \in DOMAIN yielded :
        \A d \in snapshot \cup suppressed :
            (/\ d.sender = yielded[k].sender
             /\ d.nonce + 1 = yielded[k].nonce
             /\ d.submission_id < yielded[k].submission_id)
                => \E j \in 1..(k - 1) : id(yielded[j]) = id(d)

\* C32: no two yielded transactions have the same TransactionId, and every
\* element of `independent` is the value that `all` holds under its id,
\* also after a live update for an id the iterator already holds.
C32_OneTransactionPerId ==
    /\ \A i, j \in DOMAIN yielded : i < j => id(yielded[i]) # id(yielded[j])
    /\ \A x \in best.independent : best.all[id(x)] = Some(x)

\* C33: behind BestTransactionsWithFees a live update is suppressed only
\* when its priority exceeds the priority of a transaction the wrapper
\* returned: what the wrapper discarded as underpriced suppresses nothing.
C33_SuppressedAboveReturned ==
    \A m \in suppressed : \E t \in YieldedSet : m.priority > t.priority

\* C34: BestTransactionsWithPrioritizedSenders returns the transactions of
\* each sender in strictly ascending nonce order, also those of a
\* prioritized sender whose nonce n exceeds the remaining prioritized gas
\* while its nonce n+1 does not.
C34_SenderNoncesAscending ==
    \A i, j \in DOMAIN yielded :
        (i < j /\ yielded[i].sender = yielded[j].sender)
            => yielded[i].nonce < yielded[j].nonce

\* C35: once mark_invalid was called for a sender on the
\* BestTransactionsWithPrioritizedSenders, no next() returns a transaction
\* of that sender, also none the wrapper holds in its buffer.
C35_MarkedSenderNotReturnedByWrapper ==
    [][Yields => JustYielded.sender \notin marked]_vars

\* C36: while skip_blobs is set on a BestTransactionsWithPrioritizedSenders
\* no blob transaction is returned, also none from the buffer, and no
\* transaction is returned whose predecessor of the same sender is a blob
\* transaction that was dropped from the buffer.
C36_NoBlobAndNoGapFromBuffer ==
    [][Yields =>
          /\ best.skip_blobs => ~JustYielded.is_eip4844
          /\ \A d \in discarded :
                ~(d.sender = JustYielded.sender /\ d.nonce + 1 = JustYielded.nonce)]_vars

\* the passes through the loop of next() in one call
RECURSIVE next_iterations(_, _)
next_iterations(self, ch) ==
    LET added == add_new_transactions(self, ch)
        popped == pop_best(added.self)
    IN  IF popped.best = None THEN 1
        ELSE IF sender_invalid(popped.self, popped.best[1])
        THEN 1 + next_iterations(popped.self, added.chan)
        ELSE IF blob_skipped(popped.self, popped.best[1])
        THEN 1 + next_iterations(
                     mark_invalid(insert_unlocked(popped.self, popped.best[1]),
                                  popped.best[1]),
                     added.chan)
        ELSE 1

\* the transactions the iterator holds
Holds == best.independent \cup held(best.all)

\* the live updates the pool has broadcast
Broadcast == submission_id - FirstLiveId

\* next() has nothing to return
AtEnd == next(best, chan, {}).item = None

\* C37: a next() call passes through its loop at most once per held
\* transaction and per message in the channel, and once more; no
\* transaction is yielded twice; the yielded, held, suppressed and waiting
\* transactions are never more than the snapshot and the broadcast ones,
\* so at most one call per inserted transaction yields; and a call that
\* returns None on an empty channel leaves no transaction ready, so every
\* call returns None until the pool broadcasts again.
C37_NextTerminates ==
    /\ (next_iterations(best, chan) <= Cardinality(Holds) + Len(chan.queue) + 1)
    /\ (\A i, j \in DOMAIN yielded : i < j => yielded[i] # yielded[j])
    /\ (Len(yielded) + Cardinality(Holds) + Cardinality(suppressed) + Len(chan.queue)
            <= Cardinality(snapshot) + Broadcast)
    /\ ((AtEnd /\ chan.queue = <<>>) => next(best, chan, {}).self.independent = {})

\* every live update has arrived and been read, the iterator has yielded,
\* still holds a transaction it will not yield, has lost one to a
\* suppression or a replacement, and is at its end
C37_Witness ==
    /\ Broadcast = MaxSends
    /\ chan.queue = <<>>
    /\ yielded # <<>>
    /\ marked # {}
    /\ best.independent = {}
    /\ held(best.all) # {}
    /\ Cardinality(Holds) + Len(yielded) < Cardinality(snapshot) + Broadcast
    /\ AtEnd

\* the pool as a caller sees it: held transactions, subpool tags, sizes,
\* sender state
PoolState == pool

\* what the channel holds is what it held, less what was read, or what it
\* held with broadcast messages behind
OnlyRead == \E k \in 0..Len(chan.queue) : chan'.queue = SubSeq(chan.queue, k + 1, Len(chan.queue))

\* C38: a step that changes the iterator (next, mark_invalid,
\* set_skip_blobs, no_updates, drop) leaves the pool as it was, and a step
\* that changes the pool leaves the iterator's maps, flags and results as
\* they were: it can only put messages into the channel.
C38_IteratorWorksOnACopy ==
    [][/\ (best' # best \/ yielded' # yielded) => PoolState' = PoolState
       /\ PoolState' # PoolState =>
             /\ best' = best
             /\ yielded' = yielded
             /\ skipped' = skipped
             /\ ~OnlyRead \/ chan' = chan]_vars

\* the pool no longer holds a transaction of the snapshot that the iterator
\* has yielded since, the iterator has yielded a transaction that reached
\* it through the channel, and it has been dropped
C38_Witness ==
    /\ \E t \in YieldedSet \cap snapshot : t \notin {e.transaction : e \in entries(pool)}
    /\ YieldedSet \ snapshot # {}
    /\ best = dropped
    /\ entries(pool) # {}

\* C39: `independent` holds at most one transaction per sender, and the
\* ancestor (sender, nonce - 1) of each of its elements is not held in `all`.
C39_IndependentAreChainHeads ==
    /\ \A x, y \in best.independent : x.sender = y.sender => x = y
    /\ \A x \in best.independent : ancestor(best, id(x)) = None

====
